---- MODULE Spec2Model ----
(***************************************************************************)
(* A model of the recommendation service: the rule packs and the two rule  *)
(* dispatchers (consumer.py evaluate_event, app.py evaluate_rules), the    *)
(* live consumers' message handlers (consumer.py, consumer_llm.py) and the *)
(* fallback worker's main loop (consumer_with_fallback.py).                *)
(*                                                                         *)
(* Numbers.  Python floats are modelled as integers in a fixed unit per    *)
(* metric, so that every threshold of the code is an integer:              *)
(*   usage_pct, used_pct            tenths of a percent   (850 = 85.0 %)   *)
(*   error_rate, 5xx_rate           1e-4                  (100 = 0.01)     *)
(*   p95_ms, qps, throughput_rps    units                                  *)
(*   total_gb, free_gb              tenths of a GB                         *)
(*   rx_mbps, tx_mbps               tenths of a Mbit/s                     *)
(*   rx/tx_err_rate, rx/tx_drop_rate  1e-4 packets/s                       *)
(* A metric value is a record [k, v]: k is "num" (v the number), "null"    *)
(* (JSON null), "absent" (the key is not in the mapping) or "str" (a       *)
(* non-numeric string, outside the event schema).                          *)
(***************************************************************************)
EXTENDS Integers, Sequences, FiniteSets, TLC

VARIABLES
    \* --- dispatcher runs (SpecDispatch) ---
    dReg,       \* which dispatcher ran last: "none", "consumer", "app", "dedup"
    dEvent,     \* the event it was given
    dRaised,    \* TRUE when a rule pack raised, so the dispatcher raised
    dAcc,       \* recos accumulated from the specific packs
    dGeneric,   \* TRUE when GENERIC_RULE.evaluate was invoked
    dOut        \* the list returned

dvars == <<dReg, dEvent, dRaised, dAcc, dGeneric, dOut>>

VARIABLES
    \* --- the live consumers (SpecLive) ---
    lRecoType,  \* RABBIT_RECO_EXCHANGE_TYPE of the run: "topic" or "fanout"
    lChan,      \* the consuming channel: "open" or "closed"
    lHandled,   \* one record per delivery handed to a process_message callback
    lExchange   \* what reached the recommendations exchange, in order

lvars == <<lRecoType, lChan, lHandled, lExchange>>

VARIABLES
    \* --- the fallback worker (SpecFallback) ---
    fCfg,         \* [poll, mock, n]: POLL_INTERVAL, MOCK_INTERVAL, len(mock_events)
    fpc,          \* where worker_loop is: "start" (before its loop),
                  \* "live_check", "fallback", "wait", "stopped"
    fChan,        \* the worker's channel: "open" or "closed"
    fQueue,       \* the private queue: bodies ready for delivery, head first
    fUnacked,     \* deliveries fetched by basic_get and not yet settled
    fSent,        \* how many live messages have been routed to the queue
    mock_index,   \* the in-memory cursor
    fCursorFile,  \* MOCK_CURSOR_FILE: [kind, index]
    waited,       \* the wait loop's counter
    fLog,         \* what the loop did last: its last two steps, in order
    fPublished,   \* what the last process_event call published
    fExit         \* how worker_loop left its loop: [reason, unsettled]

fvars == <<fCfg, fpc, fChan, fQueue, fUnacked, fSent, mock_index, fCursorFile,
           waited, fLog, fPublished, fExit>>

VARIABLES
    \* --- provisioning of the broker (SpecProvision) ---
    pCfg,         \* the environment: [logType, recoType, patterns, debug];
                  \* patterns: RABBIT_LOG_BINDINGS split at its commas
    bExchanges,   \* the broker's exchanges: name -> kind, "none" when not declared
    bQueues,      \* the broker's queues
    bBindings,    \* the broker's binding table, in the order bindings were made
    pRuns,        \* component -> number of provision_infrastructure runs
    pResult       \* component -> how its last run ended

pvars == <<pCfg, bExchanges, bQueues, bBindings, pRuns, pResult>>

VARIABLES
    \* --- the recommendations table and its readers (SpecStore) ---
    sRows,        \* the rows of table recommendations, in insertion order
    sOut          \* the last operation on it and what it returned

svars == <<sRows, sOut>>

VARIABLES
    \* --- POST /recommendations/analyze and its callers (SpecAnalyze) ---
    aReq,         \* the last request: who sent it, its headers and its event
    aOut          \* what came back: the response, or the caller's result

avars == <<aReq, aOut>>

vars == <<dvars, lvars, fvars, pvars, svars, avars>>

(***************************************************************************)
(* Metric values, events, messages                                         *)
(***************************************************************************)
Num(n) == [k |-> "num", v |-> n]
Null == [k |-> "null", v |-> 0]
Absent == [k |-> "absent", v |-> 0]
Str == [k |-> "str", v |-> 0]

\* dict.get(key): None for an absent key and for a null value
IsNone(x) == x.k \in {"absent", "null"}
\* key in dict
HasKey(x) == x.k # "absent"

MetricKeys ==
    {"usage_pct", "used_pct", "p95_ms", "error_rate", "qps", "5xx_rate",
     "throughput_rps", "total_gb", "free_gb", "rx_mbps", "tx_mbps",
     "rx_err_rate", "tx_err_rate", "rx_drop_rate", "tx_drop_rate", "other"}

EmptyMetrics == [key \in MetricKeys |-> Absent]

\* the mapping that holds the given keys and no other
Metrics(given) ==
    [key \in MetricKeys |-> IF key \in DOMAIN given THEN given[key] ELSE Absent]

TypeAbsent == "<no type>"
ResourceAbsent == "<no resource>"
LabelAbsent == "<no label>"

\* An event (a JSON object).  mstate / lstate: whether the "metrics" / "labels"
\* key is absent, null or a mapping; mstate "list": "metrics" is a non-empty
\* JSON list.
RawAbsent == "<no raw>"

Event(type, resource, lstate, volume, nic, mstate, m) ==
    [type |-> type, resource |-> resource,
     lstate |-> lstate, volume |-> volume, nic |-> nic,
     mstate |-> mstate, m |-> m, raw |-> RawAbsent]

\* a recommendation string: its template and the values formatted into it
Msg(t, a, b, s, r) == [t |-> t, a |-> a, b |-> b, s |-> s, r |-> r]

Ok(recos) == [raised |-> FALSE, recos |-> recos]
Raise == [raised |-> TRUE, recos |-> <<>>]

\* event.get("metrics", {}) or {}   /   event.get("metrics") or {}
MetricsOrEmpty(e) == IF e.mstate = "map" THEN e.m ELSE EmptyMetrics
\* not m
IsEmpty(m) == \A key \in MetricKeys : ~HasKey(m[key])
\* labels.get(name, "unknown") after  labels = event.get("labels") or {}
LabelOr(e, value) ==
    IF e.lstate = "map" /\ value # LabelAbsent THEN value ELSE "unknown"

(***************************************************************************)
(* Rule packs (src/rules).  Evaluate returns Ok(list) or Raise.            *)
(***************************************************************************)

\* ---- rules/cpu_rules.py ----
CPU_HIGH == 850
CPU_LOW == 50

CPUSupports(et) == et \in {"system.cpu", "host.cpu"}

\* _get_usage_pct: the value found (float() of a non-numeric string raises),
\* or Null for None
CPUGetUsagePct(m) ==
    IF HasKey(m["usage_pct"]) /\ m["usage_pct"].k # "null" THEN m["usage_pct"]
    ELSE IF HasKey(m["used_pct"]) /\ m["used_pct"].k # "null" THEN m["used_pct"]
    ELSE Null

CPUTier(usage) ==
    IF usage > CPU_HIGH THEN "cpu_high"
    ELSE IF usage < CPU_LOW THEN "cpu_low"
    ELSE "cpu_normal"

CPUEvaluate(e) ==
    LET usage == CPUGetUsagePct(MetricsOrEmpty(e)) IN
    IF usage.k = "str" THEN Raise
    ELSE IF usage.k = "null" THEN Ok(<<Msg("cpu_missing", 0, 0, "", "")>>)
    ELSE Ok(<<Msg(CPUTier(usage.v), usage.v, 0, "", "")>>)

\* ---- rules/payment_rules.py ----
PAY_P95_HIGH == 1000
PAY_P95_ELEVATED == 500
PAY_ERR_CRITICAL == 500
PAY_ERR_ELEVATED == 100

PaymentSupports(et) == et \in {"api.payment", "api.checkout"}

PaymentP95(p95) ==
    IF IsNone(p95) THEN <<>>
    ELSE IF p95.v > PAY_P95_HIGH THEN <<Msg("pay_p95_high", p95.v, 0, "", "")>>
    ELSE IF p95.v > PAY_P95_ELEVATED
         THEN <<Msg("pay_p95_elevated", p95.v, 0, "", "")>>
    ELSE <<>>

PaymentErr(err) ==
    IF IsNone(err) THEN <<>>
    ELSE IF err.v > PAY_ERR_CRITICAL
         THEN <<Msg("pay_err_critical", err.v, 0, "", "")>>
    ELSE IF err.v > PAY_ERR_ELEVATED
         THEN <<Msg("pay_err_elevated", err.v, 0, "", "")>>
    ELSE <<>>

\* m = event.get("metrics", {}) has no "or {}": a null metrics field is None
\* and m.get raises
PaymentEvaluate(e) ==
    IF e.mstate = "null" THEN Raise
    ELSE
    LET m == MetricsOrEmpty(e)
        p95 == m["p95_ms"]
        err == m["error_rate"]
        recos == PaymentP95(p95) \o PaymentErr(err)
    IN  IF IsNone(p95) /\ IsNone(err) THEN Ok(<<Msg("pay_missing", 0, 0, "", "")>>)
        ELSE IF p95.k = "str" \/ err.k = "str" THEN Raise
        ELSE IF recos = <<>> THEN Ok(<<Msg("pay_ok", 0, 0, "", "")>>)
        ELSE Ok(recos)

\* ---- rules/error_rate_rules.py ----
ERR_WARN == 100
ERR_CRIT == 500
ERR_MIN_QPS == 5

ErrorRateSupports(et) == et \in {"service.error_rate", "api.error_rate"}

ErrorRateTier(pct) ==
    IF pct >= ERR_CRIT THEN "err_critical"
    ELSE IF pct >= ERR_WARN THEN "err_elevated"
    ELSE "err_healthy"

ErrorRateEvaluate(e) ==
    LET m == MetricsOrEmpty(e)
        err == m["error_rate"]
        qps == m["qps"]
    IN  IF IsNone(err) THEN Ok(<<Msg("err_missing", 0, 0, "", "")>>)
        ELSE IF err.k = "str" \/ qps.k = "str" THEN Raise
        ELSE IF ~IsNone(qps) /\ qps.v < ERR_MIN_QPS /\ err.v < ERR_WARN
             THEN Ok(<<Msg("err_weak", 0, 0, "", "")>>)
        ELSE Ok(<<Msg(ErrorRateTier(err.v), err.v, 0, "", "")>>
                \o (IF ~IsNone(qps) /\ qps.v > 0 /\ err.v >= ERR_WARN
                    THEN <<Msg("err_load", qps.v, 0, "", "")>> ELSE <<>>))

\* ---- rules/network_http_rules.py ----
HTTP_P95_WARN == 500
HTTP_P95_CRIT == 1000
HTTP_ERR_WARN == 100
HTTP_ERR_CRIT == 500

NetworkHttpSupports(et) == et \in {"net.http", "gateway.http"}

HttpP95(p95) ==
    IF IsNone(p95) THEN <<>>
    ELSE IF p95.v >= HTTP_P95_CRIT
         THEN <<Msg("http_p95_critical", p95.v, 0, "", "")>>
    ELSE IF p95.v >= HTTP_P95_WARN
         THEN <<Msg("http_p95_elevated", p95.v, 0, "", "")>>
    ELSE <<>>

Http5xx(r5x) ==
    IF IsNone(r5x) THEN <<>>
    ELSE IF r5x.v >= HTTP_ERR_CRIT
         THEN <<Msg("http_5xx_critical", r5x.v, 0, "", "")>>
    ELSE IF r5x.v >= HTTP_ERR_WARN
         THEN <<Msg("http_5xx_elevated", r5x.v, 0, "", "")>>
    ELSE <<>>

\* a pack that combines the two checks: the 5xx rate is looked at only when
\* the latency raised nothing
NetworkHttpCombined(e) ==
    LET m == MetricsOrEmpty(e)
        recos == IF HttpP95(m["p95_ms"]) # <<>> THEN HttpP95(m["p95_ms"])
                 ELSE Http5xx(m["5xx_rate"])
    IN  IF IsNone(m["p95_ms"]) /\ IsNone(m["5xx_rate"])
        THEN Ok(<<Msg("http_missing", 0, 0, "p95_ms, 5xx_rate", "")>>)
        ELSE IF recos = <<>> THEN Ok(<<Msg("http_ok", 0, 0, "", "")>>)
        ELSE Ok(recos)

NetworkHttpEvaluate(e) ==
    LET m == MetricsOrEmpty(e)
        p95 == m["p95_ms"]
        r5x == m["5xx_rate"]
        rps == m["throughput_rps"]
        recos == HttpP95(p95) \o Http5xx(r5x)
        within == IF recos = <<>> THEN <<Msg("http_ok", 0, 0, "", "")>> ELSE recos
    IN  IF IsNone(p95) /\ IsNone(r5x)
        THEN Ok(<<Msg("http_missing", 0, 0, "p95_ms, 5xx_rate", "")>>)
        ELSE IF p95.k = "str" \/ r5x.k = "str" \/ rps.k = "str" THEN Raise
        ELSE IF ~IsNone(rps) /\ rps.v > 0 /\ ~IsNone(p95) /\ p95.v >= HTTP_P95_WARN
             THEN Ok(within \o <<Msg("http_throughput", rps.v, 0, "", "")>>)
        ELSE Ok(within)

\* ---- rules/generic_rules.py ----
\* event.get("type", "unknown") / event.get("resource", "resource")
GenericEvaluate(e) ==
    IF e.mstate # "list" /\ IsEmpty(MetricsOrEmpty(e)) THEN Ok(<<Msg("gen_nometrics", 0, 0, "", "")>>)
    ELSE Ok(<<Msg("gen_nomatch", 0, 0,
                  IF e.type = TypeAbsent THEN "unknown" ELSE e.type,
                  IF e.resource = ResourceAbsent THEN "resource" ELSE e.resource)>>)

\* ---- rules/memory_rules.py, rules/disk_rules.py ----
\* 100 * num / den as Python formats it with one decimal (.1f), in tenths
PctTenths(num, den) == (2000 * num + den) \div (2 * den)

MEM_HIGH == 85
MEM_LOW == 20

MemorySupports(et) == et = "system.memory"

\* used_pct = (total - free) / total * 100, compared without rounding
MemoryTier(total, free) ==
    IF 100 * (total - free) > MEM_HIGH * total THEN "mem_high"
    ELSE IF 100 * (total - free) < MEM_LOW * total THEN "mem_low"
    ELSE "mem_normal"

MemoryEvaluate(e) ==
    LET m == MetricsOrEmpty(e)
        total == m["total_gb"]
        free == m["free_gb"]
    IN  IF IsNone(total) \/ IsNone(free) THEN Ok(<<Msg("mem_missing", 0, 0, "", "")>>)
        ELSE IF total.k = "str" THEN Raise
        ELSE IF total.v <= 0 THEN Ok(<<Msg("mem_invalid", 0, 0, "", "")>>)
        ELSE IF free.k = "str" THEN Raise
        ELSE LET tier == MemoryTier(total.v, free.v)
                 used == PctTenths(total.v - free.v, total.v)
             IN  Ok(<<Msg(tier, used,
                          IF tier = "mem_normal" THEN 1000 - used ELSE 0, "", "")>>)

DISK_CRITICAL == 10
DISK_WARNING == 25

DiskSupports(et) == et = "system.disk"

\* tiers whose boundaries 10 and 25 belong to the lower tier
DiskTierInclusive(total, free) ==
    IF 100 * free <= DISK_CRITICAL * total THEN "disk_critical"
    ELSE IF 100 * free <= DISK_WARNING * total THEN "disk_low"
    ELSE "disk_healthy"

\* free_pct = 100 - used_pct = 100 * free / total, compared without rounding
\* (exact for the whole-GB and one-decimal values the model runs on)
DiskTier(total, free) ==
    IF 100 * free < DISK_CRITICAL * total THEN "disk_critical"
    ELSE IF 100 * free < DISK_WARNING * total THEN "disk_low"
    ELSE "disk_healthy"

DiskEvaluate(e) ==
    LET m == MetricsOrEmpty(e)
        volume == LabelOr(e, e.volume)
        total == m["total_gb"]
        free == m["free_gb"]
    IN  IF IsNone(total) \/ IsNone(free)
        THEN Ok(<<Msg("disk_missing", 0, 0, volume, "")>>)
        ELSE IF total.k = "str" THEN Raise
        ELSE IF total.v <= 0 THEN Ok(<<Msg("disk_invalid", 0, 0, volume, "")>>)
        ELSE IF free.k = "str" THEN Raise
        ELSE Ok(<<Msg(DiskTier(total.v, free.v),
                      1000 - PctTenths(total.v - free.v, total.v), 0, volume, "")>>)

\* ---- rules/system_net_rules.py ----
NET_HIGH == 800

SystemNetSupports(et) == et = "system.net"

\* x or 0
OrZero(x) == IF IsNone(x) THEN 0 ELSE x.v

\* One check of evaluate: "if (a or 0) > limit or (b or 0) > limit: append
\* an f-string that formats a and b".  Formatting None raises TypeError, and
\* a non-numeric string raises in the comparison or in the format.
NetCheck(t, a, b, limit, nic) ==
    IF a.k = "str" \/ b.k = "str" THEN Raise
    ELSE IF OrZero(a) > limit \/ OrZero(b) > limit
         THEN IF IsNone(a) \/ IsNone(b) THEN Raise
              ELSE Ok(<<Msg(t, a.v, b.v, nic, "")>>)
    ELSE Ok(<<>>)

SystemNetEvaluate(e) ==
    LET m == MetricsOrEmpty(e)
        nic == LabelOr(e, e.nic)
        rx == m["rx_mbps"]
        tx == m["tx_mbps"]
        high == NetCheck("net_high", rx, tx, NET_HIGH, nic)
        errs == NetCheck("net_errors", m["rx_err_rate"], m["tx_err_rate"], 0, nic)
        drops == NetCheck("net_drops", m["rx_drop_rate"], m["tx_drop_rate"], 0, nic)
        recos == high.recos \o errs.recos \o drops.recos
    IN  IF IsNone(rx) /\ IsNone(tx) THEN Ok(<<Msg("net_nodata", 0, 0, nic, "")>>)
        ELSE IF high.raised \/ errs.raised \/ drops.raised THEN Raise
        ELSE IF recos = <<>>
             THEN Ok(<<Msg("net_healthy", OrZero(rx), OrZero(tx), nic, "")>>)
        ELSE Ok(recos)

(***************************************************************************)
(* The dispatchers: consumer.py evaluate_event, app.py evaluate_rules      *)
(***************************************************************************)
PackSupports(pack, et) ==
    CASE pack = "cpu" -> CPUSupports(et)
      [] pack = "memory" -> MemorySupports(et)
      [] pack = "disk" -> DiskSupports(et)
      [] pack = "system_net" -> SystemNetSupports(et)
      [] pack = "payment" -> PaymentSupports(et)
      [] pack = "error_rate" -> ErrorRateSupports(et)
      [] pack = "network_http" -> NetworkHttpSupports(et)

PackEvaluate(pack, e) ==
    CASE pack = "cpu" -> CPUEvaluate(e)
      [] pack = "memory" -> MemoryEvaluate(e)
      [] pack = "disk" -> DiskEvaluate(e)
      [] pack = "system_net" -> SystemNetEvaluate(e)
      [] pack = "payment" -> PaymentEvaluate(e)
      [] pack = "error_rate" -> ErrorRateEvaluate(e)
      [] pack = "network_http" -> NetworkHttpEvaluate(e)

\* consumer.py
SPECIFIC_RULES == <<"cpu", "payment", "error_rate", "network_http">>
\* app.py
APP_SPECIFIC_RULES ==
    <<"cpu", "memory", "disk", "system_net", "payment", "error_rate", "network_http">>

\* for pack in packs: if pack.supports(et): recos += pack.evaluate(event)
RECURSIVE RunSpecific(_, _, _, _)
RunSpecific(packs, i, e, recos) ==
    IF i > Len(packs) THEN Ok(recos)
    ELSE IF PackSupports(packs[i], e.type)
         THEN LET r == PackEvaluate(packs[i], e) IN
              IF r.raised THEN Raise
              ELSE RunSpecific(packs, i + 1, e, recos \o r.recos)
    ELSE RunSpecific(packs, i + 1, e, recos)

\* a dispatcher that appends the generic pack's output whatever the list holds
GenericAlways(recos) == TRUE

\* if not recos:
GenericNeeded(recos) == recos = <<>>

\* list(dict.fromkeys(recos)): keys in insertion order, a key already in the
\* dict keeps its place
RECURSIVE FromKeys(_, _, _)
FromKeys(recos, i, keys) ==
    IF i > Len(recos) THEN keys
    ELSE IF \E j \in 1..Len(keys) : keys[j] = recos[i]
         THEN FromKeys(recos, i + 1, keys)
    ELSE FromKeys(recos, i + 1, Append(keys, recos[i]))

Reverse(s) == [i \in 1..Len(s) |-> s[Len(s) - i + 1]]

\* a de-duplication that keeps each message at its last occurrence
KeepLastOccurrence(recos) == Reverse(FromKeys(Reverse(recos), 1, <<>>))

DictFromKeys(recos) == FromKeys(recos, 1, <<>>)

\* The body shared by evaluate_event and evaluate_rules, with what the run
\* did: acc (the specific packs' recos), generic (the generic pack invoked).
Dispatch(packs, e) ==
    LET spec == RunSpecific(packs, 1, e, <<>>)
        generic == GenericNeeded(spec.recos)
        recos == IF generic THEN spec.recos \o GenericEvaluate(e).recos
                 ELSE spec.recos
    IN  IF spec.raised
        THEN [raised |-> TRUE, acc |-> <<>>, generic |-> FALSE, out |-> <<>>]
        ELSE [raised |-> FALSE, acc |-> spec.recos, generic |-> generic,
              out |-> DictFromKeys(recos)]

evaluate_event(e) == Dispatch(SPECIFIC_RULES, e)
evaluate_rules(e) == Dispatch(APP_SPECIFIC_RULES, e)

(***************************************************************************)
(* The events the dispatchers are run on                                   *)
(***************************************************************************)
UsageVals ==
    {Absent, Null, Str, Num(20), Num(50), Num(849), Num(850), Num(851), Num(920)}

CpuMetrics ==
    {Metrics(("usage_pct" :> u) @@ ("used_pct" :> v)) :
        u \in UsageVals, v \in {Absent, Num(500)}}

PaymentMetrics ==
    {Metrics(("p95_ms" :> p) @@ ("error_rate" :> r)) :
        p \in {Absent, Null, Str, Num(400), Num(501), Num(1001)},
        r \in {Absent, Num(50), Num(101), Num(501)}}

ErrorRateMetrics ==
    {Metrics(("error_rate" :> r) @@ ("qps" :> q)) :
        r \in {Absent, Str, Num(50), Num(100), Num(500)},
        q \in {Absent, Null, Num(0), Num(3), Num(20)}}

HttpMetrics ==
    {Metrics(("p95_ms" :> p) @@ ("5xx_rate" :> r) @@ ("throughput_rps" :> t)) :
        p \in {Absent, Str, Num(499), Num(500), Num(1000)},
        r \in {Absent, Num(99), Num(100), Num(500)},
        t \in {Absent, Num(0), Num(40)}}

SpaceMetrics ==
    {Metrics(("total_gb" :> t) @@ ("free_gb" :> f)) :
        t \in {Absent, Num(0), Num(1000)},
        f \in {Absent, Null, Str, Num(50), Num(99), Num(100), Num(149),
               Num(150), Num(249), Num(250), Num(800), Num(801)}}

NetMetrics ==
    {Metrics(("rx_mbps" :> rx) @@ ("tx_mbps" :> tx) @@ ("rx_err_rate" :> re)
             @@ ("tx_err_rate" :> te) @@ ("rx_drop_rate" :> d[1])
             @@ ("tx_drop_rate" :> d[2])) :
        rx \in {Absent, Num(0), Num(500), Num(900)},
        tx \in {Absent, Num(100), Num(900)},
        re \in {Absent, Num(3)}, te \in {Absent, Num(2)},
        d \in {<<Absent, Absent>>, <<Num(1), Absent>>, <<Num(1), Num(1)>>}}

OtherMetrics == {EmptyMetrics, Metrics("other" :> Num(1))}

\* events of the given types with a metrics mapping
WithMetrics(types, ms) ==
    {Event(t, "host-1", "absent", LabelAbsent, LabelAbsent, "map", m) :
        t \in types, m \in ms}

\* events of the given types whose "metrics" key is absent or null
WithoutMetrics(types) ==
    {Event(t, "host-1", "absent", LabelAbsent, LabelAbsent, st, EmptyMetrics) :
        t \in types, st \in {"absent", "null"}}

\* disk and NIC events with labels
Labelled(types, ms) ==
    {Event(t, "host-1", "map", l, l, "map", m) :
        t \in types, m \in ms, l \in {LabelAbsent, "C:"}}

SpecificTypes ==
    {"system.cpu", "host.cpu", "api.payment", "api.checkout", "service.error_rate",
     "api.error_rate", "net.http", "gateway.http", "system.memory", "system.disk",
     "system.net"}

UnsupportedEvents ==
    {Event(t, r, "absent", LabelAbsent, LabelAbsent, st, m) :
        t \in {"custom.event", "unknown.event", TypeAbsent},
        r \in {ResourceAbsent, "host-1"},
        st \in {"map"}, m \in OtherMetrics}
    \cup WithoutMetrics({"custom.event", TypeAbsent})

Events ==
    WithMetrics({"system.cpu", "host.cpu"}, CpuMetrics)
    \cup WithMetrics({"api.payment", "api.checkout"}, PaymentMetrics)
    \cup WithMetrics({"service.error_rate", "api.error_rate"}, ErrorRateMetrics)
    \cup WithMetrics({"net.http", "gateway.http"}, HttpMetrics)
    \cup WithMetrics({"system.memory", "system.disk"}, SpaceMetrics)
    \cup Labelled({"system.disk"}, SpaceMetrics)
    \cup WithMetrics({"system.net"}, NetMetrics)
    \cup Labelled({"system.net"}, {Metrics(("rx_mbps" :> Num(900)) @@ ("tx_mbps" :> Num(100)))})
    \cup WithoutMetrics(SpecificTypes)
    \cup UnsupportedEvents

NoEvent ==
    Event(TypeAbsent, ResourceAbsent, "absent", LabelAbsent, LabelAbsent,
          "absent", EmptyMetrics)

\* the lists dict.fromkeys is run on by itself
MaxRecos == 4
RecoPool ==
    {Msg("cpu_missing", 0, 0, "", ""), Msg("pay_ok", 0, 0, "", ""),
     Msg("gen_nometrics", 0, 0, "", "")}
RecoLists == UNION {[1..n -> RecoPool] : n \in 0..MaxRecos}

(***************************************************************************)
(* SpecDispatch: one dispatcher run per step                               *)
(***************************************************************************)
DInit ==
    /\ dReg = "none"
    /\ dEvent = NoEvent
    /\ dRaised = FALSE
    /\ dAcc = <<>>
    /\ dGeneric = FALSE
    /\ dOut = <<>>

Record(reg, e, r) ==
    /\ dReg' = reg
    /\ dEvent' = e
    /\ dRaised' = r.raised
    /\ dAcc' = r.acc
    /\ dGeneric' = r.generic
    /\ dOut' = r.out
    /\ UNCHANGED <<lvars, fvars, pvars, svars, avars>>

\* consumer.py evaluate_event(event)
EvaluateEvent ==
    /\ dReg = "none"
    /\ \E e \in Events : Record("consumer", e, evaluate_event(e))

\* app.py evaluate_rules(event)
EvaluateRules ==
    /\ dReg = "none"
    /\ \E e \in Events : Record("app", e, evaluate_rules(e))

\* list(dict.fromkeys(recos)) on a list of its own
FromKeysOnly ==
    /\ dReg = "none"
    /\ \E recos \in RecoLists :
        Record("dedup", NoEvent,
               [raised |-> FALSE, acc |-> recos, generic |-> FALSE,
                out |-> DictFromKeys(recos)])

DNext == EvaluateEvent \/ EvaluateRules \/ FromKeysOnly

(***************************************************************************)
(* Message bodies and the live consumers' handlers                         *)
(***************************************************************************)
\* A delivered body: kind says what the bytes are, raw names the bytes, and
\* event is the object a body of kind "event" parses to.
\*   "event"      UTF-8, a JSON object
\*   "json_other" UTF-8, valid JSON that is not an object (a list, a number)
\*   "not_json"   UTF-8, not JSON
\*   "not_utf8"   bytes that are not UTF-8
\*   "empty"      b""
Body(kind, raw, e) == [kind |-> kind, raw |-> raw, event |-> e]

LiveEvents ==
    {Event("system.cpu", "host-1", "absent", LabelAbsent, LabelAbsent, "map",
           Metrics("usage_pct" :> Num(920))),
     Event("system.cpu", "host-1", "absent", LabelAbsent, LabelAbsent, "map",
           Metrics("usage_pct" :> Str)),
     Event("custom.event", "host-1", "absent", LabelAbsent, LabelAbsent, "map",
           Metrics("other" :> Num(1))),
     Event("api.payment", "host-1", "absent", LabelAbsent, LabelAbsent, "null",
           EmptyMetrics)}

Bodies ==
    {Body("event", "{...}", e) : e \in LiveEvents}
    \cup {Body("json_other", "[1, 2]", NoEvent),
          Body("not_json", "cpu is high", NoEvent),
          Body("not_utf8", "\\xff\\xfe", NoEvent),
          Body("empty", "", NoEvent)}

\* json.loads succeeds
IsJson(body) == body.kind \in {"event", "json_other"}

\* the placeholder event built for a body that is not JSON
\* (consumer_llm.py process_message, consumer_with_fallback.py
\* normalize_message_body)
Placeholder(raw) ==
    [Event("unknown.event", "unknown", "map", LabelAbsent, LabelAbsent, "map",
           EmptyMetrics) EXCEPT !.raw = raw]

\* consumer.py normalize_metrics, app.py _normalize_metrics.  A "metrics"
\* value that is a non-empty list is truthy and survives `or {}`: neither
\* key is "in" it, and it is stored back as it is (mstate "list").
normalize_metrics(e) ==
    LET m == MetricsOrEmpty(e)
        shim == /\ e.type \in {"system.cpu", "host.cpu"}
                /\ ~HasKey(m["usage_pct"])
                /\ HasKey(m["used_pct"])
    IN  [e EXCEPT !.mstate = IF e.mstate = "list" THEN "list" ELSE "map",
                  !.m = IF shim THEN [m EXCEPT !["usage_pct"] = m["used_pct"]]
                        ELSE m]

\* event.get("type", "unknown.event")
EventType(e) == IF e.type = TypeAbsent THEN "unknown.event" ELSE e.type

Payload(source, e, recos, text) ==
    [source |-> source, event_type |-> EventType(e), input |-> e,
     recos |-> recos, text |-> text]

\* one basic_publish on the recommendations exchange
Publication(exType, key, payload) ==
    [exchange |-> "recommendations", declared_as |-> exType,
     routing_key |-> key, delivery_mode |-> 2, payload |-> payload]

\* What a handler did to its delivery: the settlements the broker received
\* (ack, or nack with its requeue flag), what it published, and whether an
\* exception left the callback.
Ack == [op |-> "ack", requeue |-> FALSE]
Nack(requeue) == [op |-> "nack", requeue |-> requeue]
Handled(settles, published, escaped) ==
    [settles |-> settles, published |-> published, escaped |-> escaped]

\* rabbitmq_publisher.py publish_recommendation: every exception is caught
\* and printed; nothing is raised to the caller
PublisherPublish(payload, brokerOk) ==
    [raised |-> FALSE,
     published |-> IF brokerOk THEN <<Publication("topic", "", payload)>>
                   ELSE <<>>]

\* consumer_llm.py publish_recommendation: no try, a failure raises
LlmPublish(payload, brokerOk, recoType) ==
    [raised |-> ~brokerOk,
     published |->
        IF brokerOk
        THEN <<Publication(recoType,
                           IF recoType = "topic" THEN payload.event_type ELSE "",
                           payload)>>
        ELSE <<>>]

\* a tail that puts a failed delivery back on the queue
SettleRequeue(tryOk, chanOpen, published) ==
    IF ~chanOpen THEN Handled(<<>>, published, TRUE)
    ELSE IF tryOk THEN Handled(<<Ack>>, published, FALSE)
    ELSE Handled(<<Nack(TRUE)>>, published, FALSE)

\* The tail of both callbacks: basic_ack at the end of the try block, and
\* basic_nack(requeue=False) in "except Exception".  On a closed channel
\* basic_ack raises, the except branch runs, and basic_nack raises out of
\* the callback.
SettleLive(tryOk, chanOpen, published) ==
    IF ~chanOpen THEN Handled(<<>>, published, TRUE)
    ELSE IF tryOk THEN Handled(<<Ack>>, published, FALSE)
    ELSE Handled(<<Nack(FALSE)>>, published, FALSE)

\* consumer.py process_message
process_message(body, brokerOk, chanOpen) ==
    LET parsed == body.kind = "event"
        msg == normalize_metrics(body.event)
        d == evaluate_event(msg)
        payload == Payload("recommendation-service", msg, d.out, "")
        pub == PublisherPublish(payload, brokerOk)
        tryOk == parsed /\ ~d.raised /\ ~pub.raised
    IN  SettleLive(tryOk, chanOpen,
                   IF parsed /\ ~d.raised THEN pub.published ELSE <<>>)

\* consumer_llm.py process_message.  llm is what llm_recommendations does:
\* "text" (it returns a text, the no-API-key warning included) or "raise".
llm_process_message(body, llm, brokerOk, chanOpen, recoType) ==
    LET raw == IF body.kind = "not_utf8" THEN "<U+FFFD>" ELSE body.raw
        event == IF IsJson(body) THEN body.event ELSE Placeholder(raw)
        isObject == body.kind # "json_other"
        payload == Payload("recommendation-service-llm", event, <<>>, "llm text")
        pub == LlmPublish(payload, brokerOk, recoType)
        reached == llm = "text" /\ isObject
        tryOk == reached /\ ~pub.raised
    IN  SettleLive(tryOk, chanOpen, IF reached THEN pub.published ELSE <<>>)

(***************************************************************************)
(* SpecLive: deliveries handed to the two callbacks, one per step          *)
(***************************************************************************)
MaxDeliveries == 2

LInit ==
    /\ lRecoType \in {"topic", "fanout"}
    /\ lChan = "open"
    /\ lHandled = <<>>
    /\ lExchange = <<>>

\* What the two callbacks hand to storage: neither imports or calls
\* store_recommendation.
LiveStored == <<>>

Deliver(consumer, body, llm, brokerOk, chanOpen, h) ==
    /\ lHandled' = Append(lHandled,
                          [consumer |-> consumer, body |-> body, llm |-> llm,
                           brokerOk |-> brokerOk, chanOpen |-> chanOpen,
                           settles |-> h.settles, published |-> h.published,
                           stored |-> LiveStored, escaped |-> h.escaped])
    /\ lExchange' = lExchange \o h.published
    /\ lChan' = IF chanOpen THEN "open" ELSE "closed"
    /\ UNCHANGED <<lRecoType, dvars, fvars, pvars, svars, avars>>

\* start_consuming of consumer.py hands a delivery to process_message
ProcessMessage ==
    /\ lChan = "open"
    /\ Len(lHandled) < MaxDeliveries
    /\ \E body \in Bodies, brokerOk \in BOOLEAN, chanOpen \in BOOLEAN :
          Deliver("consumer", body, "text", brokerOk, chanOpen,
                  process_message(body, brokerOk, chanOpen))

\* start_consuming of consumer_llm.py hands a delivery to process_message
LlmProcessMessage ==
    /\ lChan = "open"
    /\ Len(lHandled) < MaxDeliveries
    /\ \E body \in Bodies, llm \in {"text", "raise"}, brokerOk \in BOOLEAN,
          chanOpen \in BOOLEAN :
          Deliver("consumer_llm", body, llm, brokerOk, chanOpen,
                  llm_process_message(body, llm, brokerOk, chanOpen, lRecoType))

LNext == ProcessMessage \/ LlmProcessMessage

(***************************************************************************)
(* The fallback worker: consumer_with_fallback.py                          *)
(***************************************************************************)
\* A cursor file is [kind, index]:
\*   "missing"   no such file
\*   "garbage"   not JSON
\*   "list"      JSON that is not an object: obj.get raises
\*   "no_index"  an object without "index": obj.get("index", 0) is 0
\*   "null"      {"index": null}: int(None) raises
\*   "object"    {"index": index}, index an integer
\*   "float"     {"index": index / 2}, index odd: a number that is no integer
\* int() of a float truncates towards zero.
IntOf(file) ==
    IF file.kind = "float"
    THEN IF file.index >= 0 THEN file.index \div 2 ELSE -((-file.index) \div 2)
    ELSE file.index

\* a load that takes the index as it is written
LoadRaw(file) == IF file.kind \in {"object", "float"} THEN IntOf(file) ELSE 0

\* load_cursor: 0 for a missing file and for any exception, else
\* max(0, int(obj.get("index", 0)))
load_cursor(file) ==
    IF file.kind \in {"object", "float"} /\ IntOf(file) > 0 THEN IntOf(file)
    ELSE 0

\* a loader that falls back to one built-in event when the file is unusable
LoadOrDefault(file) ==
    IF file.kind \in {"array", "items"}
    THEN [raised |-> FALSE, len |-> file.len]
    ELSE [raised |-> FALSE, len |-> 1]

\* A mock file is [kind, len]:
\*   "missing"   no such file: FileNotFoundError
\*   "garbage"   not JSON: json.load raises
\*   "scalar"    JSON that is neither an array nor an object with an
\*               "items" array: ValueError
\*   "array"     a JSON array of len events
\*   "items"     {"items": [...]} with len events
load_mock_events(file) ==
    IF file.kind \in {"array", "items"}
    THEN [raised |-> FALSE, len |-> file.len]
    ELSE [raised |-> TRUE, len |-> 0]

\* a save that is one behind the cursor
SaveBehind(idx) == [kind |-> "object", index |-> idx - 1]

\* save_cursor: the file holds {"index": idx}
save_cursor(idx) == [kind |-> "object", index |-> idx]

\* normalize_message_body: the parsed JSON value, or the placeholder.  The
\* result is an object unless the body is JSON of another kind.
normalize_message_body(body) ==
    [isObject |-> body.kind # "json_other",
     event |-> IF IsJson(body) THEN body.event
               ELSE Placeholder(IF body.kind = "not_utf8" THEN "b'\\xff\\xfe'"
                                ELSE body.raw)]

\* What stands in the payload for an analysis that returned None
AnalysisFailed ==
    [note |-> "analysis_failed_or_unavailable", event_type |-> "", recos |-> <<>>]

\* The response of POST /recommendations/analyze (app.py analyze_event) to an
\* authorised request: 500 when evaluate_rules raises
AnalyzeResponse(e, d) ==
    IF d.raised THEN AnalysisFailed
    ELSE [note |-> "", event_type |-> EventType(e), recos |-> d.out]

\* call_analyze_endpoint: the response JSON, or None on any failure.
\* analyzeOk: the request is answered with a 2xx status.
call_analyze_endpoint(e, analyzeOk) ==
    IF analyzeOk THEN AnalyzeResponse(e, evaluate_rules(normalize_metrics(e)))
    ELSE AnalysisFailed

\* The guarded import of rabbitmq_publisher names RECO_EXCHANGE_TYPE, which
\* the module does not define: the import raises, publish_recommendation is
\* set to None, RECO_EXCHANGE (imported before the failure) stays bound and
\* RECO_EXCHANGE_TYPE is unbound.
PublisherImported == FALSE

\* publish_reco_direct as it runs when the guarded import succeeds:
\* publish_recommendation catches its own failure, so True is returned
\* whether or not the message went out
PublishViaHelper(payload, brokerOk) ==
    [ok |-> TRUE, published |-> PublisherPublish(payload, brokerOk).published]

\* publish_reco_direct: the direct branch.  exchange_declare raises
\* NameError inside its own try and is skipped; basic_publish uses the
\* empty routing key.  Returns True unless the connection fails.
publish_reco_direct(payload, brokerOk) ==
    IF PublisherImported
    THEN [ok |-> TRUE, published |-> PublisherPublish(payload, brokerOk).published]
    ELSE [ok |-> brokerOk,
          published |-> IF brokerOk
                        THEN <<Publication("<not declared>", "", payload)>>
                        ELSE <<>>]

\* process_event(event, source): source is only printed.  event.get raises
\* on a value that is not an object; nothing else leaves the function.
process_event(n, source, analyzeOk, brokerOk) ==
    LET rec_payload ==
            [source |-> "consumer_with_fallback", input_event |-> n.event,
             analyze_result |-> call_analyze_endpoint(n.event, analyzeOk)]
    IN  IF ~n.isObject THEN [raised |-> TRUE, published |-> <<>>]
        ELSE [raised |-> FALSE,
              published |-> publish_reco_direct(rec_payload, brokerOk).published]

\* mock_events[i]: the i-th entry of the mock file (0-based), when it is an
\* object; an entry of another JSON kind makes process_event raise
MockEvent(i) ==
    Event("system.cpu", "mock-host", "absent", LabelAbsent, LabelAbsent, "map",
          Metrics("usage_pct" :> Num(100 * (i + 1))))

(***************************************************************************)
(* SpecFallback: worker_loop, one phase of the loop per step               *)
(***************************************************************************)
MaxMock == 2
MaxInterval == 2
MaxLive == 1

CursorFiles ==
    {[kind |-> "missing", index |-> 0], [kind |-> "garbage", index |-> 0]}
    \cup {[kind |-> "object", index |-> i] : i \in -1..(MaxMock + 1)}

\* the files a worker may find when it starts
StartCursorFiles ==
    CursorFiles
    \cup {[kind |-> k, index |-> 0] : k \in {"list", "no_index", "null"}}
    \cup {[kind |-> "float", index |-> h] : h \in {-1, 1, 3}}

MockFiles ==
    {[kind |-> k, len |-> 0] : k \in {"missing", "garbage", "scalar"}}
    \cup {[kind |-> k, len |-> n] : k \in {"array", "items"}, n \in 0..MaxMock}

FBodies ==
    {Body("event", "{...}",
          Event("system.cpu", "host-1", "absent", LabelAbsent, LabelAbsent, "map",
                Metrics("usage_pct" :> Num(920)))),
     Body("json_other", "[1, 2]", NoEvent),
     Body("not_json", "cpu is high", NoEvent),
     Body("empty", "", NoEvent)}

LogEntry(op, idx, kind, settle) ==
    [op |-> op, idx |-> idx, kind |-> kind, settle |-> settle]

\* the log with one more entry, cut to its last two entries
Logged(log, entry) ==
    IF log = <<>> THEN <<entry>> ELSE <<log[Len(log)], entry>>

\* How the loop was left, and the deliveries this worker had fetched and not
\* settled at that moment.
Exit(reason, unsettled) == [reason |-> reason, unsettled |-> unsettled]

Running == Exit("none", <<>>)

FInit ==
    /\ fCfg \in [poll : 0..MaxInterval, mock : 0..MaxInterval, n : 0..MaxMock]
    /\ fCursorFile \in CursorFiles
    /\ mock_index = load_cursor(fCursorFile)
    /\ fpc = "live_check"
    /\ fChan = "open"
    /\ fQueue = <<>>
    /\ fUnacked = <<>>
    /\ fSent = 0
    /\ waited = 0
    /\ fLog = <<>>
    /\ fPublished = <<>>
    /\ fExit = Running

\* a producer's message is routed to the private queue
FPublishLive ==
    /\ fpc \notin {"start", "stopped"}
    /\ fSent < MaxLive
    /\ \E body \in FBodies : fQueue' = Append(fQueue, body)
    /\ fSent' = fSent + 1
    /\ UNCHANGED <<dvars, lvars, pvars, svars, avars, fExit, fCfg, fpc, fChan, fUnacked, mock_index, fCursorFile, waited,
                   fLog, fPublished>>

\* The broker closes the channel: what the channel held unacknowledged goes
\* back to the queue.
FChannelClose ==
    /\ fpc \notin {"start", "stopped"}
    /\ fChan = "open"
    /\ fChan' = "closed"
    /\ fQueue' = fUnacked \o fQueue
    /\ fUnacked' = <<>>
    /\ UNCHANGED <<dvars, lvars, pvars, svars, avars, fExit, fCfg, fpc, fSent, mock_index, fCursorFile, waited, fLog,
                   fPublished>>

\* basic_get on a closed channel raises: "Worker crashed", conn.close()
FCrash ==
    /\ fpc' = "stopped"
    /\ fExit' = Exit("Exception", fUnacked)
    /\ UNCHANGED <<dvars, lvars, pvars, svars, avars, fCfg, fChan, fQueue, fUnacked, fSent, mock_index, fCursorFile,
                   waited, fLog, fPublished>>

\* A settlement call (basic_ack, basic_nack) inside try / except: pass.
\* chanOpen: the channel is still open when it is made.  Otherwise the call
\* raises, is swallowed, and the broker has requeued the channel's
\* unacknowledged deliveries, msg among them.
FSettle(msg, rest, chanOpen, requeued) ==
    IF chanOpen
    THEN /\ fQueue' = requeued
         /\ UNCHANGED <<fUnacked, fChan>>
    ELSE /\ fQueue' = fUnacked \o <<msg>> \o rest
         /\ fUnacked' = <<>>
         /\ fChan' = "closed"

\* 1) live check: lines 237-259
FLiveCheck ==
    /\ fpc = "live_check"
    /\ IF fChan = "closed" THEN FCrash
       ELSE IF fQueue = <<>>
            THEN /\ fpc' = "fallback"
                 /\ UNCHANGED <<dvars, lvars, pvars, svars, avars, fExit, fCfg, fChan, fQueue, fUnacked, fSent, mock_index,
                                fCursorFile, waited, fLog, fPublished>>
       ELSE LET msg == Head(fQueue) IN
            IF msg.kind = "empty"
            THEN \* "if body:" is false for b"": the delivery is fetched and
                 \* the loop goes on as if the queue had been empty
                 /\ fQueue' = Tail(fQueue)
                 /\ fUnacked' = Append(fUnacked, msg)
                 /\ fpc' = "fallback"
                 /\ UNCHANGED <<dvars, lvars, pvars, svars, avars, fExit, fCfg, fChan, fSent, mock_index, fCursorFile,
                                waited, fLog, fPublished>>
            ELSE /\ \E analyzeOk \in BOOLEAN, brokerOk \in BOOLEAN,
                       chanOpen \in BOOLEAN :
                       LET r == process_event(normalize_message_body(msg), "live",
                                              analyzeOk, brokerOk)
                           settle == IF r.raised THEN "nack" ELSE "ack"
                       IN  /\ FSettle(msg, Tail(fQueue), chanOpen, Tail(fQueue))
                           /\ fLog' = Logged(fLog,
                                  LogEntry("live", 0, msg.kind,
                                           IF chanOpen THEN settle ELSE "none"))
                           /\ fPublished' = r.published
                 /\ fpc' = "live_check"
                 /\ UNCHANGED <<dvars, lvars, pvars, svars, avars, fExit, fCfg, fSent, mock_index, fCursorFile, waited>>

\* 2) fallback: lines 262-278 and 299-301
FFallback ==
    /\ fpc = "fallback"
    /\ IF fCfg.n > 0
       THEN LET idx == IF mock_index >= fCfg.n THEN 0 ELSE mock_index IN
            /\ \E analyzeOk \in BOOLEAN, brokerOk \in BOOLEAN, isObject \in BOOLEAN :
                  LET r == process_event([isObject |-> isObject,
                                          event |-> MockEvent(idx)],
                                         "mock", analyzeOk, brokerOk)
                  IN  /\ fPublished' = r.published
                      /\ fLog' = Logged(fLog,
                                        LogEntry("mock", idx, "",
                                                 IF r.raised THEN "error" ELSE ""))
            /\ mock_index' = idx + 1
            /\ fCursorFile' = save_cursor(idx + 1)
            /\ waited' = 0
            /\ fpc' = "wait"
            /\ UNCHANGED <<dvars, lvars, pvars, svars, avars, fExit, fCfg, fChan, fQueue, fUnacked, fSent>>
       ELSE /\ fpc' = "live_check"
            /\ UNCHANGED <<dvars, lvars, pvars, svars, avars, fExit, fCfg, fChan, fQueue, fUnacked, fSent, mock_index,
                           fCursorFile, waited, fLog, fPublished>>

\* the wait loop: lines 281-298, one pass of "while waited < MOCK_INTERVAL"
FWait ==
    /\ fpc = "wait"
    /\ IF waited >= fCfg.mock
       THEN /\ fpc' = "live_check"
            /\ UNCHANGED <<dvars, lvars, pvars, svars, avars, fExit, fCfg, fChan, fQueue, fUnacked, fSent, mock_index,
                           fCursorFile, waited, fLog, fPublished>>
       ELSE IF fChan = "closed" THEN FCrash
       ELSE IF fQueue = <<>>
            THEN /\ waited' = waited + fCfg.poll
                 /\ UNCHANGED <<dvars, lvars, pvars, svars, avars, fExit, fCfg, fpc, fChan, fQueue, fUnacked, fSent,
                                mock_index, fCursorFile, fLog, fPublished>>
       ELSE LET msg == Head(fQueue) IN
            /\ waited' = waited + fCfg.poll
            /\ \E chanOpen \in BOOLEAN :
                  \E requeued \in {fQueue, Append(Tail(fQueue), msg)} :
                     FSettle(msg, Tail(fQueue), chanOpen, requeued)
            /\ fLog' = Logged(fLog, LogEntry("detect", 0, msg.kind, "requeue"))
            /\ fpc' = "live_check"
            /\ UNCHANGED <<dvars, lvars, pvars, svars, avars, fExit, fCfg, fSent, mock_index, fCursorFile, fPublished>>

\* Ctrl+C: KeyboardInterrupt is not an Exception, so no "except Exception"
\* of the loop body catches it; lines 302-311 print, then conn.close().
\* fetched: the interrupt arrives between a basic_get that returned a
\* delivery (the live check's, for a body that is not empty, or the wait
\* loop's peek) and the settlement that follows it.  Closing the connection
\* makes the broker requeue what the worker held.
FStop ==
    /\ fpc \notin {"start", "stopped"}
    /\ \E fetched \in BOOLEAN :
          LET inGet == /\ fChan = "open"
                       /\ fQueue # <<>>
                       /\ \/ fpc = "live_check" /\ Head(fQueue).kind # "empty"
                          \/ fpc = "wait" /\ waited < fCfg.mock
              taken == IF fetched /\ inGet THEN <<Head(fQueue)>> ELSE <<>>
              rest  == IF fetched /\ inGet THEN Tail(fQueue) ELSE fQueue
          IN  /\ fExit' = Exit("KeyboardInterrupt", fUnacked \o taken)
              /\ fQueue' = fUnacked \o taken \o rest
    /\ fUnacked' = <<>>
    /\ fChan' = "closed"
    /\ fpc' = "stopped"
    /\ UNCHANGED <<dvars, lvars, pvars, svars, avars, fCfg, fSent, mock_index, fCursorFile, waited, fLog,
                   fPublished>>

FNext ==
    FPublishLive \/ FChannelClose \/ FLiveCheck \/ FFallback \/ FWait \/ FStop

\* worker_loop before its loop, lines 190-233: the mock file is loaded, a
\* failure leaves mock_events empty; the cursor is loaded; the channel is
\* opened and the private queue declared and bound.
FStart ==
    /\ fpc = "start"
    /\ LET loaded == load_mock_events(fCfg.file)
       IN  fCfg' = [fCfg EXCEPT !.n = IF loaded.raised THEN 0 ELSE loaded.len]
    /\ mock_index' = load_cursor(fCursorFile)
    /\ fpc' = "live_check"
    /\ UNCHANGED <<dvars, lvars, pvars, svars, avars, fChan, fQueue, fUnacked, fSent, fCursorFile, waited,
                   fLog, fPublished, fExit>>

SNext ==
    FStart \/ FPublishLive \/ FChannelClose \/ FLiveCheck \/ FFallback \/ FWait
        \/ FStop

\* the loop on its own: no producer, no channel closure, no Ctrl+C
RNext == FLiveCheck \/ FFallback \/ FWait

(***************************************************************************)
(* Provisioning: ensure_exchange, ensure_queue, bind_queue and             *)
(* provision_infrastructure of consumer.py and consumer_llm.py             *)
(***************************************************************************)
Components == {"consumer", "consumer_llm"}

LOG_EXCHANGE == "logs"
RECO_EXCHANGE == "recommendations"
RECO_DEBUG_QUEUE == "reco.debug"

\* LOG_QUEUE of consumer.py, LOG_QUEUE_LLM of consumer_llm.py
LogQueue(c) == IF c = "consumer" THEN "reco.logs" ELSE "reco.llm.logs"

\* the broker as the three tables a run reads and writes
Broker(ex, qs, bs) == [ex |-> ex, qs |-> qs, bs |-> bs]

NoError == [outcome |-> "ok", class |-> "", name |-> "", expected |-> "", actual |-> ""]
NotRun == [NoError EXCEPT !.outcome = "none"]

\* The exception that leaves ensure_exchange when the broker answers 406 to
\* exchange_declare.  consumer.py replaces it by a RuntimeError whose text
\* holds the exchange name and the expected type; consumer_llm.py lets
\* pika's ChannelClosedByBroker through, whose reply text is the broker's
\* ("inequivalent arg 'type' for exchange 'x': received 'a' but current is
\* 'b'").
ConflictRaised(c, name, expected, actual) ==
    IF c = "consumer"
    THEN [outcome |-> "error", class |-> "RuntimeError", name |-> name,
          expected |-> expected, actual |-> ""]
    ELSE [outcome |-> "error", class |-> "ChannelClosedByBroker", name |-> name,
          expected |-> expected, actual |-> actual]

\* exchange_declare(durable=True): creates the exchange, is a no-op on an
\* exchange of the same kind, and is refused (406) on one of another kind
ExchangeDeclare(b, name, kind) ==
    IF b.ex[name] \in {"none", kind}
    THEN [ok |-> TRUE, b |-> [b EXCEPT !.ex[name] = kind]]
    ELSE [ok |-> FALSE, b |-> b]

\* queue_declare(durable=True)
QueueDeclare(b, name) == [b EXCEPT !.qs = @ \cup {name}]

\* a broker that records every queue_bind call
QueueBindAgain(b, exchange, queue, key) ==
    [b EXCEPT !.bs = Append(@, [exchange |-> exchange, queue |-> queue, key |-> key])]

\* queue_bind: a binding the table already holds is not added again
QueueBind(b, exchange, queue, key) ==
    LET binding == [exchange |-> exchange, queue |-> queue, key |-> key] IN
    IF \E i \in 1..Len(b.bs) : b.bs[i] = binding THEN b
    ELSE [b EXCEPT !.bs = Append(@, binding)]

\* p.strip(): the item without the blanks around it
Strip(p) ==
    CASE p = " system.* " -> "system.*"
      [] p = "  " -> ""
      [] OTHER -> p

\* a split that keeps every item as it is written
Untrimmed(items) == items

\* [p.strip() for p in LOG_BINDINGS.split(",") if p.strip()], on the items
\* LOG_BINDINGS.split(",") gives
RECURSIVE Patterns(_)
Patterns(items) ==
    IF items = <<>> THEN <<>>
    ELSE IF Strip(Head(items)) = "" THEN Patterns(Tail(items))
    ELSE <<Strip(Head(items))>> \o Patterns(Tail(items))

\* for p in patterns: bind_queue(ch, exchange, queue, p)
RECURSIVE BindAll(_, _, _, _)
BindAll(b, exchange, queue, keys) ==
    IF keys = <<>> THEN b
    ELSE BindAll(QueueBind(b, exchange, queue, Head(keys)), exchange, queue,
                 Tail(keys))

\* the input side: queue and bindings after the logs exchange is ensured
ProvisionInput(c, cfg, b) ==
    BindAll(QueueDeclare(b, LogQueue(c)), LOG_EXCHANGE, LogQueue(c),
            IF cfg.logType = "topic" THEN Patterns(cfg.patterns) ELSE <<"">>)

\* the output side after the recommendations exchange is ensured: the debug
\* queue of consumer.py when CREATE_RECO_DEBUG is set
ProvisionOutput(c, cfg, b) ==
    IF c = "consumer" /\ cfg.debug
    THEN QueueBind(QueueDeclare(b, RECO_DEBUG_QUEUE), RECO_EXCHANGE, RECO_DEBUG_QUEUE,
                   IF cfg.recoType = "topic" THEN "#" ELSE "")
    ELSE b

\* provision_infrastructure of component c: the broker it leaves and how it
\* ended.  What was declared before an exception stays declared.
provision_infrastructure(c, cfg, b) ==
    IF ~ExchangeDeclare(b, LOG_EXCHANGE, cfg.logType).ok
    THEN [b |-> b,
          result |-> ConflictRaised(c, LOG_EXCHANGE, cfg.logType, b.ex[LOG_EXCHANGE])]
    ELSE IF b.ex[RECO_EXCHANGE] \notin {"none", cfg.recoType}
    THEN [b |-> ProvisionInput(c, cfg, ExchangeDeclare(b, LOG_EXCHANGE, cfg.logType).b),
          result |-> ConflictRaised(c, RECO_EXCHANGE, cfg.recoType, b.ex[RECO_EXCHANGE])]
    ELSE [b |-> ProvisionOutput(c, cfg,
                  ExchangeDeclare(
                      ProvisionInput(c, cfg,
                          ExchangeDeclare(b, LOG_EXCHANGE, cfg.logType).b),
                      RECO_EXCHANGE, cfg.recoType).b),
          result |-> NoError]

(***************************************************************************)
(* SpecProvision: start_consumer's provisioning run on a broker that other *)
(* components declare on too                                               *)
(***************************************************************************)
MaxRuns == 2

Kinds == {"topic", "fanout"}

\* values of RABBIT_LOG_BINDINGS, split at the commas: <<"">> is the empty
\* string
PatternLists ==
    {<<"">>, <<"system.*">>, <<" system.* ", "api.payment">>, <<"#", "#">>,
     <<"system.*", "  ", "">>}

PInit ==
    /\ pCfg \in [logType : Kinds, recoType : Kinds, patterns : PatternLists,
                 debug : BOOLEAN]
    /\ bExchanges \in [{LOG_EXCHANGE, RECO_EXCHANGE} -> Kinds \cup {"none"}]
    /\ bQueues = {}
    /\ bBindings = <<>>
    /\ pRuns = [c \in Components |-> 0]
    /\ pResult = [c \in Components |-> NotRun]

RunProvision(c) ==
    LET r == provision_infrastructure(c, pCfg, Broker(bExchanges, bQueues, bBindings))
    IN  /\ pRuns' = [pRuns EXCEPT ![c] = @ + 1]
        /\ pResult' = [pResult EXCEPT ![c] = r.result]
        /\ bExchanges' = r.b.ex
        /\ bQueues' = r.b.qs
        /\ bBindings' = r.b.bs
        /\ UNCHANGED <<pCfg, dvars, lvars, fvars, svars, avars>>

\* consumer.py start_consumer: provision_infrastructure()
Provision ==
    /\ pRuns["consumer"] < MaxRuns
    /\ RunProvision("consumer")

\* consumer_llm.py start_consumer: provision_infrastructure()
ProvisionLlm ==
    /\ pRuns["consumer_llm"] < MaxRuns
    /\ RunProvision("consumer_llm")

\* rabbitmq_publisher.publish_recommendation declares the recommendations
\* exchange as a topic exchange; a refusal is caught and printed
PublisherDeclare ==
    /\ bExchanges[RECO_EXCHANGE] = "none"
    /\ bExchanges' = [bExchanges EXCEPT ![RECO_EXCHANGE] = "topic"]
    /\ UNCHANGED <<pCfg, bQueues, bBindings, pRuns, pResult, dvars, lvars, fvars,
                   svars, avars>>

\* the server-named exclusive queue of consumer_with_fallback.py
WorkerQueue == "amq.gen-1"

\* consumer_with_fallback.py worker_loop, lines 200-231, on broker b: the
\* logs exchange is declared when RABBIT_CREATE_INFRA is set, the private
\* queue is declared and bound.  A refused declare or a bind on a missing
\* exchange closes the channel and the next call on it raises: the worker
\* ends before its loop and its exclusive queue goes with the connection.
WorkerBindings(cfg, createInfra, b) ==
    LET declared == IF createInfra THEN ExchangeDeclare(b, LOG_EXCHANGE, cfg.logType)
                    ELSE [ok |-> TRUE, b |-> b]
        q == QueueDeclare(declared.b, WorkerQueue)
        \* if LOG_BINDINGS:  (the whole string, stripped, is not empty)
        isSet == ~(Len(cfg.patterns) = 1 /\ Strip(cfg.patterns[1]) = "")
    IN  IF ~declared.ok \/ declared.b.ex[LOG_EXCHANGE] = "none" THEN b
        ELSE IF cfg.logType = "fanout"
             THEN QueueBind(q, LOG_EXCHANGE, WorkerQueue, "")
        ELSE IF isSet
             THEN BindAll(q, LOG_EXCHANGE, WorkerQueue, Patterns(cfg.patterns))
        ELSE QueueBind(q, LOG_EXCHANGE, WorkerQueue, "")

\* consumer_with_fallback.py started once
WorkerSetup ==
    /\ WorkerQueue \notin bQueues
    /\ \E createInfra \in BOOLEAN :
          LET b == WorkerBindings(pCfg, createInfra,
                                  Broker(bExchanges, bQueues, bBindings))
          IN  /\ bExchanges' = b.ex
              /\ bQueues' = b.qs
              /\ bBindings' = b.bs
    /\ UNCHANGED <<pCfg, pRuns, pResult, dvars, lvars, fvars, svars, avars>>

\* consumer.py after its provisioning succeeded: a delivery is handed to
\* process_message, and publish_recommendation declares the recommendations
\* exchange as a topic exchange on this broker before it publishes; a
\* refusal is caught inside it
ProvisionedDelivery ==
    /\ pResult["consumer"].outcome = "ok"
    /\ lHandled = <<>>
    /\ \E body \in {b \in Bodies : b.kind = "event"} :
          LET accepted == ExchangeDeclare(Broker(bExchanges, bQueues, bBindings),
                                         RECO_EXCHANGE, "topic").ok
          IN  Deliver("consumer", body, "text", accepted, TRUE,
                      process_message(body, accepted, TRUE))

PNext ==
    Provision \/ ProvisionLlm \/ PublisherDeclare \/ WorkerSetup
        \/ ProvisionedDelivery

(***************************************************************************)
(* storage.py, and the ownership ids on their way from an event to a row  *)
(***************************************************************************)
MaxRows == 2
MaxPage == 2

Users == {"u1", "u2"}
Projects == {"p1", "p2"}

\* None, an absent key or header, an empty string: all fail "if user_id:"
NoId == "<none>"

Ids(u, p) == [user_id |-> u, project_id |-> p]
NoIds == Ids(NoId, NoId)
Owners == {Ids(u, p) : u \in Users \cup {NoId}, p \in Projects \cup {NoId}}

\* A payload, as far as ownership goes: the ids at its top level and in the
\* dicts under its keys "input", "input_metrics" and "input_event" (NoIds
\* for a key the payload does not have).
PayloadIds(top, input, input_metrics, input_event) ==
    [top |-> top, input |-> input, input_metrics |-> input_metrics,
     input_event |-> input_event]

\* consumer.py process_message, lines 279-285: timestamp, source,
\* event_type, input_metrics (the event's metrics) and recommendations.
\* The event's user_id and project_id are copied nowhere.
ConsumerPayload(e) == PayloadIds(NoIds, NoIds, NoIds, NoIds)

\* consumer_with_fallback.py process_event, lines 156-161: timestamp,
\* source, input_event (the whole event) and analyze_result
WorkerPayload(e) == PayloadIds(NoIds, NoIds, NoIds, e)

\* a payload with the ids at its top level, as the test scripts store them
DirectPayload(e) == PayloadIds(e, NoIds, NoIds, NoIds)

\* x or y of Python, on ids
OrId(x, y) == IF x # NoId THEN x ELSE y

\* store_recommendation: the row inserted for a payload
store_recommendation(rows, payload) ==
    Append(rows,
           [id |-> Len(rows) + 1,
            ts |-> Len(rows) + 1,
            user_id |->
               IF payload.top.user_id # NoId THEN payload.top.user_id
               ELSE OrId(payload.input.user_id, payload.input_metrics.user_id),
            project_id |->
               IF payload.top.project_id # NoId THEN payload.top.project_id
               ELSE OrId(payload.input.project_id,
                         payload.input_metrics.project_id)])

\* the WHERE clause built by both queries of query_recommendations_paginated
\* ("since" and "event_type" are not given)
Matches(row, user_id, project_id) ==
    /\ user_id # NoId => row.user_id = user_id
    /\ project_id # NoId => row.project_id = project_id

\* a query that forgets the project filter
QueryByUserOnly(rows, page, page_size, user_id, project_id) ==
    LET hit(row) == Matches(row, user_id, NoId)
        ordered == Reverse(SelectSeq(rows, hit))
        offset == (page - 1) * page_size
        last == IF offset + page_size < Len(ordered) THEN offset + page_size
                ELSE Len(ordered)
    IN  [items |-> SubSeq(ordered, offset + 1, last), total |-> Len(ordered)]

\* query_recommendations_paginated: COUNT(*) of the matching rows, and the
\* page of them under ORDER BY ts DESC LIMIT page_size OFFSET offset.  Rows
\* are stored with increasing timestamps, so ts DESC is the reverse of the
\* insertion order.
query_recommendations_paginated(rows, page, page_size, user_id, project_id) ==
    LET hit(row) == Matches(row, user_id, project_id)
        ordered == Reverse(SelectSeq(rows, hit))
        offset == (page - 1) * page_size
        last == IF offset + page_size < Len(ordered) THEN offset + page_size
                ELSE Len(ordered)
    IN  [items |-> SubSeq(ordered, offset + 1, last), total |-> Len(ordered)]

\* app.py get_recommendations behind require_gateway_auth: the user id is
\* the X-User-Id header of the request, None when the header is absent
get_recommendations(rows, page, page_size, project_id, x_user_id) ==
    query_recommendations_paginated(rows, page, page_size, x_user_id,
                                    project_id)

(***************************************************************************)
(* POST /recommendations/analyze: app.py require_gateway_auth and          *)
(* analyze_event, and the fallback worker's call of it                     *)
(***************************************************************************)
MaxClock == 3
\* the age beyond which a timestamp counts as stale, in clock ticks
MaxAge == 1

SERVICE_NAME == "recommendation-service"
NoHeader == "<no header>"
\* the signature header when it is not sent
NoSignature == <<>>

\* int(x_gateway_timestamp): the number, or -1 for ValueError
ParseInt(text) ==
    CASE text = "0" -> 0
      [] text = "1" -> 1
      [] OTHER -> -1

\* hmac.new(secret, msg, sha256).hexdigest(): equal digests only for equal
\* secret and message
Hmac(secret, msg) == <<secret>> \o msg
\* f"{x_service_name}:{x_gateway_timestamp}"
EncryptKey(service, timestamp) == <<service, ":", timestamp>>

Headers(sig, ts, zts, svc) ==
    [x_gateway_signature |-> sig, x_gateway_timestamp |-> ts,
     z_gateway_timestamp |-> zts, x_service_name |-> svc]

\* what requests.post(RECO_ANALYZE_URL, json=event, timeout=30) sends
NoHeaders == Headers(NoSignature, NoHeader, NoHeader, NoHeader)

\* require_gateway_auth: the status it ends with (200: the dependency
\* returned) and the timestamp it used
require_gateway_auth(secret, h) ==
    LET timestamp == IF h.x_gateway_timestamp # NoHeader
                     THEN h.x_gateway_timestamp ELSE h.z_gateway_timestamp
        expected_sig == Hmac(secret, EncryptKey(h.x_service_name, timestamp))
        status ==
            IF secret = "" THEN 503
            ELSE IF \/ h.x_gateway_signature = NoSignature
                    \/ timestamp = NoHeader
                    \/ h.x_service_name = NoHeader THEN 401
            ELSE IF ParseInt(timestamp) < 0 THEN 401
            ELSE IF h.x_service_name # SERVICE_NAME THEN 403
            ELSE IF expected_sig # h.x_gateway_signature THEN 401
            ELSE 200
    IN  [status |-> status, timestamp |-> timestamp]

\* What a request to the endpoint ends with.  event: the event as the
\* handler holds it when it returns (normalized once the handler ran)
Response(status, e, recos) == [status |-> status, event |-> e, recos |-> recos]

\* analyze_event with USE_LLM off: 500 when evaluate_rules raises
analyze_event(e) ==
    LET n == normalize_metrics(e)
        d == evaluate_rules(n)
    IN  IF d.raised THEN Response(500, n, <<>>) ELSE Response(200, n, d.out)

\* the route: the dependency first, then the handler
PostAnalyze(secret, h, e) ==
    IF require_gateway_auth(secret, h).status # 200
    THEN Response(require_gateway_auth(secret, h).status, e, <<>>)
    ELSE analyze_event(e)

(***************************************************************************)
(* SpecAnalyze: one request per behaviour                                  *)
(***************************************************************************)
Secrets == {"", "k1"}
Stamps == {NoHeader, "abc", "0", "1"}
Signatures ==
    {NoSignature, Hmac("k1", EncryptKey(SERVICE_NAME, "0")),
     Hmac("k1", EncryptKey(SERVICE_NAME, "1")),
     Hmac("k1", EncryptKey("other-service", "0")),
     Hmac("k2", EncryptKey(SERVICE_NAME, "0"))}
HeaderSets ==
    {Headers(sig, ts, zts, svc) :
        sig \in Signatures, ts \in Stamps, zts \in {NoHeader, "1"},
        svc \in {NoHeader, SERVICE_NAME, "other-service"}}

AnalyzeEvents ==
    WithMetrics({"system.cpu", "system.memory", "custom.event"}, CpuMetrics)
    \cup WithoutMetrics({"host.cpu", "custom.event"})
    \cup {Event(t, "host-1", "absent", LabelAbsent, LabelAbsent, "list",
                 EmptyMetrics) : t \in {"custom.event", TypeAbsent}}

\* brokerOk: the broker is reachable and accepts the publication
Request(sender, secret, h, now, e, brokerOk) ==
    [sender |-> sender, secret |-> secret, headers |-> h, now |-> now,
     event |-> e, brokerOk |-> brokerOk]

AInit ==
    /\ aReq = Request("none", "", NoHeaders, 0, NoEvent, FALSE)
    /\ aOut = [reached |-> FALSE, response |-> Response(0, NoEvent, <<>>),
               analyze_result |-> AnalysisFailed, ok |-> FALSE,
               published |-> <<>>]

\* the service before a request: GATEWAY_SECRET_KEY as deployed, the clock,
\* and the event the next caller is about to post
AWaiting ==
    /\ \E secret \in Secrets, now \in 0..MaxClock, e \in AnalyzeEvents :
          aReq = Request("none", secret, NoHeaders, now, e, FALSE)
    /\ aOut = [reached |-> FALSE, response |-> Response(0, NoEvent, <<>>),
               analyze_result |-> AnalysisFailed, ok |-> FALSE,
               published |-> <<>>]

\* a request forwarded by the API gateway (or sent by anyone who can reach
\* the service), arriving at time now
GatewayAnalyze ==
    /\ aReq.sender = "none"
    /\ \E h \in HeaderSets :
          LET secret == aReq.secret
              now == aReq.now
              e == aReq.event
          IN
          /\ aReq' = Request("gateway", secret, h, now, e, FALSE)
          /\ aOut' = [reached |-> TRUE, response |-> PostAnalyze(secret, h, e),
                      analyze_result |-> AnalysisFailed, ok |-> FALSE,
                      published |-> <<>>]
    /\ UNCHANGED <<dvars, lvars, fvars, pvars, svars>>

\* consumer_with_fallback.py process_event(event): the worker posts the
\* event, puts the answer, or the note, into its payload, publishes the
\* payload and stores it.
\* up: the endpoint is reachable and answers within the timeout
WorkerAnalyze ==
    /\ aReq.sender = "none"
    /\ \E up \in BOOLEAN, brokerOk \in BOOLEAN, dbOk \in BOOLEAN :
        \E r \in {PostAnalyze(aReq.secret, NoHeaders, aReq.event)} :
        \E rec_payload \in
              {[source |-> "consumer_with_fallback",
                input_event |-> aReq.event,
                analyze_result |->
                    call_analyze_endpoint(aReq.event, up /\ r.status = 200)]} :
        \E pub \in {publish_reco_direct(rec_payload, brokerOk)} :
          /\ aReq' = Request("worker", aReq.secret, NoHeaders, aReq.now,
                             aReq.event, brokerOk)
          /\ aOut' = [reached |-> up,
                      response |-> IF up THEN r
                                   ELSE Response(0, aReq.event, <<>>),
                      analyze_result |-> rec_payload.analyze_result,
                      ok |-> pub.ok, published |-> pub.published]
          /\ sRows' = IF dbOk
                      THEN store_recommendation(sRows, WorkerPayload(NoIds))
                      ELSE sRows
    /\ UNCHANGED <<dvars, lvars, fvars, pvars, sOut>>

ANext == GatewayAnalyze \/ WorkerAnalyze

(***************************************************************************)
(* SpecStore: stores, then one read                                        *)
(***************************************************************************)
Out(op, ids, page, page_size, payload, stored, items, total) ==
    [op |-> op, user_id |-> ids.user_id, project_id |-> ids.project_id,
     page |-> page, page_size |-> page_size, payload |-> payload,
     stored |-> stored, items |-> items, total |-> total]

NoPayload == PayloadIds(NoIds, NoIds, NoIds, NoIds)

SInit ==
    /\ sRows = <<>>
    /\ sOut = Out("none", NoIds, 0, 0, NoPayload, <<>>, <<>>, 0)

\* a read ends the run
Reading == sOut.op \in {"query", "get"}

\* store_recommendation called with a payload that has the ids at its top
\* level
StoreDirect ==
    /\ ~Reading
    /\ Len(sRows) < MaxRows
    /\ \E e \in Owners :
          LET rows == store_recommendation(sRows, DirectPayload(e))
          IN  /\ sRows' = rows
              /\ sOut' = Out("store", e, 0, 0, DirectPayload(e),
                             <<rows[Len(rows)]>>, <<>>, 0)
    /\ UNCHANGED <<dvars, lvars, fvars, pvars, avars>>

\* consumer_with_fallback.py process_event on an event with ids e: the
\* payload is published, then stored; a failure of the store is printed
WorkerEvent ==
    /\ ~Reading
    /\ Len(sRows) < MaxRows
    /\ \E e \in Owners, dbOk \in BOOLEAN :
          LET rows == store_recommendation(sRows, WorkerPayload(e))
          IN  /\ sRows' = IF dbOk THEN rows ELSE sRows
              /\ sOut' = Out(IF dbOk THEN "worker" ELSE "worker, db down",
                             e, 0, 0, WorkerPayload(e),
                             IF dbOk THEN <<rows[Len(rows)]>> ELSE <<>>,
                             <<>>, 0)
    /\ UNCHANGED <<dvars, lvars, fvars, pvars, avars>>

\* consumer.py process_message on an event with ids e: the payload is
\* published; nothing is stored
ConsumerEvent ==
    /\ ~Reading
    /\ \E e \in Owners :
          sOut' = Out("consumer", e, 0, 0, ConsumerPayload(e), <<>>, <<>>, 0)
    /\ UNCHANGED <<sRows, dvars, lvars, fvars, pvars, avars>>

\* query_recommendations_paginated(page, page_size, user_id=u, project_id=p)
QueryPaginated ==
    /\ ~Reading
    /\ \E e \in Owners, page \in 1..MaxPage, page_size \in 1..MaxPage :
          LET r == query_recommendations_paginated(sRows, page, page_size,
                                                   e.user_id, e.project_id)
          IN  sOut' = Out("query", e, page, page_size, NoPayload, <<>>,
                          r.items, r.total)
    /\ UNCHANGED <<sRows, dvars, lvars, fvars, pvars, avars>>

\* GET /recommendations from a request that passed require_gateway_auth
GetRecommendations ==
    /\ ~Reading
    /\ \E e \in Owners, page \in 1..MaxPage, page_size \in 1..MaxPage :
          LET r == get_recommendations(sRows, page, page_size, e.project_id,
                                       e.user_id)
          IN  sOut' = Out("get", e, page, page_size, NoPayload, <<>>,
                          r.items, r.total)
    /\ UNCHANGED <<sRows, dvars, lvars, fvars, pvars, avars>>

TNext ==
    StoreDirect \/ WorkerEvent \/ ConsumerEvent \/ QueryPaginated
        \/ GetRecommendations

(***************************************************************************)
(* Properties of the dispatchers (SpecDispatch)                            *)
(***************************************************************************)
\* the pack list of the dispatcher the last run used
RunPacks == IF dReg = "app" THEN APP_SPECIFIC_RULES ELSE SPECIFIC_RULES

\* the last step was a dispatcher run on an event, and it returned
Returned == dReg \in {"consumer", "app"} /\ ~dRaised

IsGenericMsg(msg) == msg.t \in {"gen_nometrics", "gen_nomatch"}

\* the results of the packs that support the event's type, in list order
RECURSIVE Concat(_, _)
Concat(packs, e) ==
    IF packs = <<>> THEN <<>>
    ELSE (IF PackSupports(Head(packs), e.type)
          THEN PackEvaluate(Head(packs), e).recos ELSE <<>>)
         \o Concat(Tail(packs), e)

\* the packs of the list that support a type
Supporting(packs, et) == {i \in 1..Len(packs) : PackSupports(packs[i], et)}

FirstIndex(seq, x) ==
    CHOOSE k \in 1..Len(seq) : seq[k] = x /\ \A l \in 1..(k - 1) : seq[l] # x

\* out holds every message of in once, in the order of first occurrences
IsStableDedup(out, in) ==
    /\ {out[i] : i \in 1..Len(out)} = {in[i] : i \in 1..Len(in)}
    /\ \A i, j \in 1..Len(out) : i # j => out[i] # out[j]
    /\ \A i, j \in 1..Len(out) :
          i < j => FirstIndex(in, out[i]) < FirstIndex(in, out[j])

\* C7: the generic pack is invoked if and only if the list accumulated from
\* the supporting specific packs is empty, and when a specific pack
\* contributed a message the output holds no generic-pack message.
C7_GenericIffEmpty ==
    Returned =>
        /\ dGeneric <=> (Concat(RunPacks, dEvent) = <<>>)
        /\ dAcc # <<>> => \A i \in 1..Len(dOut) : ~IsGenericMsg(dOut[i])
        /\ dAcc = <<>> => dOut = GenericEvaluate(dEvent).recos

\* a run in which a specific pack contributed and the generic pack stayed out
C7_Witness ==
    /\ Returned
    /\ dAcc # <<>>
    /\ ~dGeneric
    /\ dOut # <<>>

\* C8: the output is the concatenation of the supporting packs' results in
\* registration order (the generic pack's result when that is empty) with
\* duplicates removed stably: each message once, at its first occurrence,
\* the order of distinct messages unchanged.
C8_StableDedup ==
    /\ Returned =>
          /\ dAcc = Concat(RunPacks, dEvent)
          /\ IsStableDedup(dOut, IF dAcc = <<>> THEN GenericEvaluate(dEvent).recos
                                 ELSE dAcc)
    /\ dReg = "dedup" => IsStableDedup(dOut, dAcc)

\* a list with a repeated message between two distinct ones was de-duplicated
C8_Witness ==
    /\ dReg = "dedup"
    /\ Len(dOut) >= 2
    /\ Len(dAcc) > Len(dOut)
    /\ dAcc[Len(dAcc)] = dAcc[1]

\* C9: for an event whose type no specific pack of the dispatcher supports,
\* the output is the generic pack's output and holds a message that names
\* the event's type, empty or absent metrics included.
C9_NamesActualType ==
    (Returned /\ Supporting(RunPacks, dEvent.type) = {} /\ dEvent.type # TypeAbsent)
        => /\ dOut = GenericEvaluate(dEvent).recos
           /\ \E i \in 1..Len(dOut) : dOut[i].s = dEvent.type

\* C10: for an event (a metrics mapping of numbers) whose type exactly one
\* specific pack supports, the pack returns a non-empty list, the generic
\* pack is not invoked and the output is the pack's result.
WellFormed(e) ==
    /\ e.mstate = "map"
    /\ \A key \in MetricKeys : e.m[key].k \in {"num", "absent"}

C10_OnePackNonEmpty ==
    (dReg \in {"consumer", "app"} /\ WellFormed(dEvent)
        /\ Cardinality(Supporting(RunPacks, dEvent.type)) = 1)
        => /\ ~dRaised
           /\ dAcc # <<>>
           /\ ~dGeneric
           /\ dOut = dAcc

(***************************************************************************)
(* Properties of the rule packs (SpecDispatch)                             *)
(***************************************************************************)
\* the last step ran a dispatcher on an event of one of the given types
\* whose metrics are a mapping of numbers
RanOn(types) ==
    /\ dReg \in {"consumer", "app"}
    /\ dEvent.type \in types
    /\ WellFormed(dEvent)

\* C11: the CPU pack returns one message, of the high tier for a usage of
\* 85 and above, of the low tier below 5, of the normal tier otherwise.
C11_CpuTiers ==
    LET usage == CPUGetUsagePct(MetricsOrEmpty(dEvent)) IN
    (RanOn({"system.cpu", "host.cpu"}) /\ usage.k = "num")
        => /\ ~dRaised
           /\ Len(dOut) = 1
           /\ dOut[1].t = IF usage.v >= CPU_HIGH THEN "cpu_high"
                          ELSE IF usage.v < CPU_LOW THEN "cpu_low"
                          ELSE "cpu_normal"

\* a disk event with both sizes given and a positive total
DiskSized ==
    /\ dReg = "app"
    /\ RanOn({"system.disk"})
    /\ dEvent.m["total_gb"].k = "num" /\ dEvent.m["total_gb"].v > 0
    /\ dEvent.m["free_gb"].k = "num"

\* C12: the disk pack returns one message: critical when the free share is
\* below 10 percent, warning from 10 up to but excluding 25, healthy from 25;
\* the message names the volume label and the free percentage.
C12_DiskTiers ==
    DiskSized =>
        LET total == dEvent.m["total_gb"].v
            free == dEvent.m["free_gb"].v
        IN  /\ ~dRaised
            /\ Len(dOut) = 1
            /\ dOut[1].t = IF 100 * free < 10 * total THEN "disk_critical"
                           ELSE IF 100 * free < 25 * total THEN "disk_low"
                           ELSE "disk_healthy"
            /\ dOut[1].s = IF dEvent.lstate = "map" /\ dEvent.volume # LabelAbsent
                           THEN dEvent.volume ELSE "unknown"
            /\ (1000 * free) % total = 0 => dOut[1].a = (1000 * free) \div total

\* total 100 GB, free 5 GB on volume C: gave the critical message for C:
\* with 5.0% free
C12_Witness ==
    /\ DiskSized
    /\ dEvent.volume = "C:"
    /\ dEvent.m["total_gb"].v = 1000
    /\ dEvent.m["free_gb"].v = 50
    /\ dOut = <<Msg("disk_critical", 50, 0, "C:", "")>>

\* C13: the memory pack alerts exactly when the free share is below 25
\* percent (critical below 10, warning below 25) and reports healthy from 25.
C13_MemoryFreeTiers ==
    (dReg = "app" /\ RanOn({"system.memory"})
        /\ dEvent.m["total_gb"].k = "num" /\ dEvent.m["total_gb"].v > 0
        /\ dEvent.m["free_gb"].k = "num")
        => /\ ~dRaised
           /\ Len(dOut) = 1
           /\ (100 * dEvent.m["free_gb"].v < 25 * dEvent.m["total_gb"].v)
                <=> dOut[1].t \notin {"mem_normal", "mem_low"}

\* C14: a pack does not raise on an event with a metrics mapping whose
\* values are absent, null or numbers, with or without labels.
C14_NoRaiseOnMissing ==
    (/\ dReg \in {"consumer", "app"}
     /\ dEvent.mstate = "map"
     /\ \A key \in MetricKeys : dEvent.m[key].k # "str")
        => ~dRaised

\* the places of dOut that hold a message of one of the given templates
Holding(templates) == {i \in 1..Len(dOut) : dOut[i].t \in templates}

P95Alerts == Holding({"http_p95_critical", "http_p95_elevated"})
Rate5xxAlerts == Holding({"http_5xx_critical", "http_5xx_elevated"})

NoDuplicateBinding ==
    \A i, j \in 1..Len(bBindings) : i # j => bBindings[i] # bBindings[j]

\* the step is a provisioning run of component c
RunsAgain(c) == pRuns'[c] = pRuns[c] + 1

C16_ConflictError ==
    \A c \in Components :
        pResult[c].outcome = "error"
            => /\ pResult[c].class \notin {"RuntimeError", "Exception"}
               /\ pResult[c].name \in {LOG_EXCHANGE, RECO_EXCHANGE}
               /\ pResult[c].expected \in Kinds
               /\ pResult[c].actual \in Kinds

(***************************************************************************)
(* Properties of the live consumers (SpecLive)                             *)
(***************************************************************************)
\* what succeeded in a handled delivery
ParseOk(h) == h.body.kind = "event"
DispatchOk(h) ==
    IF h.consumer = "consumer"
    THEN ParseOk(h) /\ ~evaluate_event(normalize_metrics(h.body.event)).raised
    ELSE h.llm = "text"
PublishOk(h) == h.brokerOk

\* the try block of the callback runs to its end
TryCompletes(h) ==
    IF h.consumer = "consumer" THEN ParseOk(h) /\ DispatchOk(h)
    ELSE h.body.kind # "json_other" /\ h.llm = "text" /\ PublishOk(h)

HandledOpen == {i \in 1..Len(lHandled) : lHandled[i].chanOpen}

C2_PublishFailureKeepsSettlement ==
    \A i, j \in HandledOpen :
        (/\ lHandled[i].consumer = lHandled[j].consumer
         /\ lHandled[i].body = lHandled[j].body
         /\ lHandled[i].llm = lHandled[j].llm
         /\ lHandled[i].brokerOk /\ ~lHandled[j].brokerOk)
            => lHandled[i].settles = lHandled[j].settles

\* C4: a body that is not JSON is wrapped as unknown.event with the raw
\* body, the payload is published with event_type unknown.event and the
\* delivery is acked.
C4_NonJsonWrapped ==
    \A i \in HandledOpen :
        LET h == lHandled[i] IN
        (h.body.kind = "not_json" /\ h.brokerOk /\ h.llm = "text")
            => /\ h.settles = <<Ack>>
               /\ Len(h.published) = 1
               /\ h.published[1].payload.event_type = "unknown.event"
               /\ h.published[1].payload.input.raw = h.body.raw

\* C17: every publication is marked persistent, and its routing key is the
\* event's type when the recommendations exchange is a topic exchange and
\* the empty string otherwise.
C17_RoutingKey ==
    \A i \in 1..Len(lExchange) :
        /\ lExchange[i].delivery_mode = 2
        /\ lExchange[i].routing_key =
              IF lExchange[i].declared_as = "topic"
              THEN lExchange[i].payload.event_type ELSE ""

\* C18: a delivery that is acked had its payload published and then handed
\* to storage.
C18_PublishPersistAck ==
    \A i \in HandledOpen :
        (lHandled[i].settles = <<Ack>> /\ lHandled[i].brokerOk)
            => /\ lHandled[i].published # <<>>
               /\ lHandled[i].stored # <<>>

(***************************************************************************)
(* Properties of the fallback worker (SpecFallback)                        *)
(***************************************************************************)
\* C3: when an iteration of the main loop starts, no delivery fetched by an
\* earlier basic_get is still unacknowledged.
C3_NothingLeftUnacked ==
    fpc = "live_check" => fUnacked = <<>>

\* C19: handling of a fetched message starts only when the worker holds no
\* delivery that it has not yet acked or rejected.
HandlesLive ==
    /\ fpc = "live_check"
    /\ fChan = "open"
    /\ fQueue # <<>>
    /\ Head(fQueue).kind # "empty"
    /\ fLog' # fLog

C19_Sequential == [][HandlesLive => fUnacked = <<>>]_vars

\* C20: when the worker is stopped by KeyboardInterrupt its connection is
\* closed and no delivery it had fetched is unsettled as the loop exits.
C20_SettledAtExit ==
    fExit.reason = "KeyboardInterrupt"
        => fChan = "closed" /\ fExit.unsettled = <<>>

\* the live check's basic_get returns a delivery
FetchesLive ==
    /\ fChan = "open"
    /\ fQueue # <<>>
    /\ FLiveCheck

\* C21: every delivery the live check fetches leaves a log entry for that
\* message: a success, or an explicit rejection.
C21_NothingSwallowed ==
    [][FetchesLive
          => \E settle \in {"ack", "nack", "none"} :
                fLog' = Logged(fLog, LogEntry("live", 0, Head(fQueue).kind,
                                              settle))]_vars

\* C22: when the live check fetches a message the loop restarts at the live
\* check: no mock event is processed and no wait is made in that iteration.
C22_LiveBeforeMock == [][FetchesLive => fpc' = "live_check"]_vars

\* C23: with mock events and no live traffic every index of the mock
\* sequence is processed again and again, forever.
C23_ReplaysForever ==
    \A i \in 0..(MaxMock - 1) :
        []<>(i < fCfg.n
                => /\ fLog # <<>>
                   /\ fLog[Len(fLog)].op = "mock"
                   /\ fLog[Len(fLog)].idx = i)

\* C24: the time slept in the wait loop after a mock event never exceeds
\* MOCK_INTERVAL.
C24_WaitBounded == waited <= fCfg.mock

\* C25: a cursor file that is missing, unreadable, not a JSON object,
\* without an integer index or with a negative index counts as index 0.
C25_CorruptCursorIsZero ==
    (/\ fpc # "start"
     /\ \/ fCursorFile.kind # "object"
        \/ fCursorFile.index < 0)
        => mock_index = 0

\* C26: when the mock file cannot be loaded the worker enters its loop with
\* no mock events: it never processes a mock event and never writes the
\* cursor file, and it goes on processing live messages.
LoadFailed == fCfg.file.kind \in {"missing", "garbage", "scalar"}

C26_LiveOnlyWithoutMocks ==
    /\ [](LoadFailed /\ fpc # "start" => fCfg.n = 0)
    /\ [][LoadFailed
            => /\ fpc = "start" => fpc' = "live_check"
               /\ fpc # "start" => fCursorFile' = fCursorFile
               /\ fpc # "start" => mock_index' = mock_index
               /\ fpc' # "wait"
               /\ fLog' # fLog => fLog'[Len(fLog')].op = "live"]_vars

C26_Witness ==
    /\ LoadFailed
    /\ fpc = "live_check"
    /\ fLog # <<>>
    /\ fLog[Len(fLog)] = LogEntry("live", 0, "event", "ack")
    /\ fPublished # <<>>

\* C27: the payload produced from a mock event carries the source "mock".
C27_MockTagged ==
    (/\ fLog # <<>>
     /\ fLog[Len(fLog)].op = "mock"
     /\ fPublished # <<>>)
        => fPublished[1].payload.source = "mock"

\* C5: after the wait-phase peek has found a live message, the next thing
\* the loop processes is a live message, not a mock event.
C5_LiveAfterDetection ==
    (Len(fLog) = 2 /\ fLog[1].op = "detect") => fLog[2].op = "live"

\* C6: after a mock event has been processed the in-memory cursor and the
\* cursor file are in 0..N-1.
C6_CursorWraps ==
    (fLog # <<>> /\ fLog[Len(fLog)].op = "mock")
        => /\ mock_index \in 0..(fCfg.n - 1)
           /\ fCursorFile.kind = "object"
           /\ fCursorFile.index \in 0..(fCfg.n - 1)

(***************************************************************************)
(* Properties of storage and its readers (SpecStore)                       *)
(***************************************************************************)
\* the ids appear somewhere in the payload
Carries(payload, ids) ==
    \E k \in {"top", "input", "input_metrics", "input_event"} :
        payload[k] = ids

\* C28: for an event with a user_id and a project_id, the payload a consumer
\* publishes carries both, and the row stored for it has both.
C28_IdsThreaded ==
    (/\ sOut.op \in {"consumer", "worker"}
     /\ sOut.user_id \in Users
     /\ sOut.project_id \in Projects)
        => /\ Carries(sOut.payload, Ids(sOut.user_id, sOut.project_id))
           /\ sOut.stored # <<>>
           /\ sOut.stored[1].user_id = sOut.user_id
           /\ sOut.stored[1].project_id = sOut.project_id

\* C29: every item GET /recommendations returns was stored with the user id
\* of the request, also when the request has no X-User-Id header.
C29_OnlyOwnRows ==
    sOut.op = "get"
        => \A i \in 1..Len(sOut.items) : sOut.items[i].user_id = sOut.user_id

\* C30: for a user u and a project p the total is the number of rows of u in
\* p, it is the same for every page and page size, and every item returned
\* is a row of u in p.
RowsOf(u, p) ==
    {i \in 1..Len(sRows) : sRows[i].user_id = u /\ sRows[i].project_id = p}

C30_TotalMatchesFilters ==
    (/\ sOut.op = "query"
     /\ sOut.user_id \in Users
     /\ sOut.project_id \in Projects)
        => /\ sOut.total = Cardinality(RowsOf(sOut.user_id, sOut.project_id))
           /\ \A page \in 1..MaxPage, page_size \in 1..MaxPage :
                 query_recommendations_paginated(
                     sRows, page, page_size, sOut.user_id,
                     sOut.project_id).total = sOut.total
           /\ \A i \in 1..Len(sOut.items) :
                 /\ sOut.items[i].user_id = sOut.user_id
                 /\ sOut.items[i].project_id = sOut.project_id

\* u1 has a row in p1 and a row elsewhere; the query for (u1, p1) finds one
C30_Witness ==
    /\ sOut.op = "query"
    /\ sOut.user_id = "u1"
    /\ sOut.project_id = "p1"
    /\ Len(sRows) = 2
    /\ sRows[1].user_id = "u1"
    /\ sRows[2].user_id = "u1"
    /\ sRows[1].project_id # sRows[2].project_id
    /\ sOut.total = 1
    /\ Len(sOut.items) = 1

(***************************************************************************)
(* Properties of the analyze endpoint and its callers (SpecAnalyze)        *)
(***************************************************************************)
\* the dependency let the request through, so analyze_event ran
HandlerRan == aOut.reached /\ aOut.response.status \in {200, 500}

\* C31: the event a dispatcher is given has a "metrics" mapping, empty when
\* the request had none or null; usage_pct equals used_pct when the request
\* had used_pct and no usage_pct; a usage_pct of the request is kept.
C31_MetricsNormalized ==
    HandlerRan =>
        LET given == aReq.event
            held == aOut.response.event
        IN  /\ held.mstate = "map"
            /\ given.mstate \in {"absent", "null"} => IsEmpty(held.m)
            /\ (/\ given.mstate = "map"
                /\ HasKey(given.m["used_pct"])
                /\ ~HasKey(given.m["usage_pct"]))
                    => held.m["usage_pct"] = given.m["used_pct"]
            /\ (given.mstate = "map" /\ HasKey(given.m["usage_pct"]))
                    => held.m["usage_pct"] = given.m["usage_pct"]

\* C32: a request that passes gateway authentication carries a timestamp no
\* older than MaxAge when it arrives: a signature over an older timestamp
\* is rejected.
C32_FreshTimestamp ==
    (aReq.sender = "gateway" /\ HandlerRan) =>
        aReq.now - ParseInt(require_gateway_auth(aReq.secret,
                                                 aReq.headers).timestamp)
            <= MaxAge

\* C34: when the endpoint answers the worker and has its secret configured,
\* the payload's analyze_result holds the recommendations evaluate_rules
\* gives for the event; the note analysis_failed_or_unavailable stands in
\* the payload only when the endpoint gave no answer.
C34_AnalyzeResult ==
    aReq.sender = "worker" =>
        /\ (aOut.reached /\ aReq.secret # "") =>
              /\ aOut.analyze_result.note = ""
              /\ aOut.analyze_result.recos
                    = evaluate_rules(normalize_metrics(aReq.event)).out
        /\ aOut.analyze_result.note # "" => ~aOut.reached

InputBindings(queue) ==
    {i \in 1..Len(bBindings) :
        bBindings[i].queue = queue /\ bBindings[i].exchange = LOG_EXCHANGE}
InputKeys(queue) == {bBindings[i].key : i \in InputBindings(queue)}

\* the configured patterns, trimmed, without the empty ones
ConfiguredPatterns == {Strip(pCfg.patterns[i]) : i \in DOMAIN pCfg.patterns} \ {""}

\* RABBIT_LOG_BINDINGS is unset, empty or blank
NoBindingsSet == Len(pCfg.patterns) = 1 /\ Strip(pCfg.patterns[1]) = ""

\* C35: every queue a component has declared and bound on the logs exchange
\* holds, on a fanout exchange, one binding with the empty key, and on a
\* topic exchange one binding per configured pattern and no other; the
\* fallback worker's private queue holds one binding with the empty key on
\* a topic exchange when no bindings are configured.
C35_BindsByKindOrGeneric ==
    \A queue \in bQueues \ {RECO_DEBUG_QUEUE} :
        /\ InputKeys(queue)
              = IF pCfg.logType = "fanout" THEN {""}
                ELSE IF queue = WorkerQueue /\ NoBindingsSet THEN {""}
                ELSE ConfiguredPatterns
        /\ Cardinality(InputBindings(queue)) = Cardinality(InputKeys(queue))

\* on a topic exchange with "#" configured twice, consumer.py's queue and
\* the worker's queue hold one binding each
C35_Witness ==
    /\ pCfg.logType = "topic"
    /\ pCfg.patterns = <<"#", "#">>
    /\ InputKeys(LogQueue("consumer")) = {"#"}
    /\ Cardinality(InputBindings(LogQueue("consumer"))) = 1
    /\ InputKeys(WorkerQueue) = {"#"}

\* C35 as stated: every queue a component has declared and bound on the logs
\* exchange holds, on a fanout exchange, one binding with the empty key, and
\* on a topic exchange one binding per configured pattern and no other.
C35_BindsByKind ==
    \A queue \in bQueues \ {RECO_DEBUG_QUEUE} :
        /\ InputKeys(queue)
              = IF pCfg.logType = "fanout" THEN {""} ELSE ConfiguredPatterns
        /\ Cardinality(InputBindings(queue)) = Cardinality(InputKeys(queue))

(***************************************************************************)
(* Properties of the mock cursor (SpecStartup, SpecFallback)               *)
(***************************************************************************)
\* C37: every mock event read was read at an index within 0..N-1, whatever
\* the cursor file held at startup.
C37_IndexInBounds ==
    \A i \in 1..Len(fLog) :
        fLog[i].op = "mock" => fLog[i].idx \in 0..(fCfg.n - 1)

\* one mock event: after it the cursor is 1 = N, and the next read is at 0
C37_Witness ==
    /\ fCfg.n = 1
    /\ mock_index = 1
    /\ Len(fLog) = 2
    /\ fLog[1].op = "mock" /\ fLog[1].idx = 0
    /\ fLog[2].op = "mock" /\ fLog[2].idx = 0

\* C38: after an iteration that read the mock event at index i the cursor is
\* i + 1 and the cursor file holds the same value, whether or not processing
\* raised; the next mock event read is the one after i (the first one after
\* the last), never i again for a sequence of two or more.
C38_CursorAdvances ==
    /\ (fLog # <<>> /\ fLog[Len(fLog)].op = "mock")
          => /\ mock_index = fLog[Len(fLog)].idx + 1
             /\ fCursorFile.kind = "object"
             /\ fCursorFile.index = mock_index
    /\ (Len(fLog) = 2 /\ fLog[1].op = "mock" /\ fLog[2].op = "mock")
          => fLog[2].idx = IF fLog[1].idx + 1 >= fCfg.n THEN 0
                           ELSE fLog[1].idx + 1

\* the event at 0 raised, the next iteration read the event at 1
C38_Witness ==
    /\ fCfg.n = 2
    /\ Len(fLog) = 2
    /\ fLog[1] = LogEntry("mock", 0, "", "error")
    /\ fLog[2].op = "mock" /\ fLog[2].idx = 1
    /\ mock_index = 2
    /\ fCursorFile = [kind |-> "object", index |-> 2]

\* C39: a delivery that consumer.py acknowledged after a successful
\* provisioning run has been published on the recommendations exchange,
\* for either configured kind of that exchange.
C39_AckedIsPublished ==
    \A i \in 1..Len(lHandled) :
        (lHandled[i].consumer = "consumer" /\ lHandled[i].settles = <<Ack>>)
            => Len(lHandled[i].published) = 1

\* C40: the two dispatchers are equivalent: whichever of them ran on the
\* event, the other one raises on it when this one did and otherwise
\* returns the same sequence of recommendations.
C40_DispatchersAgree ==
    dReg \in {"consumer", "app"}
        => LET other == IF dReg = "app" THEN evaluate_event(dEvent)
                        ELSE evaluate_rules(dEvent)
           IN  /\ other.raised = dRaised
               /\ ~dRaised => other.out = dOut

(***************************************************************************)
(* Specifications                                                          *)
(***************************************************************************)
\* Each specification runs one component; the others stay as constructed.
LIdle == LInit /\ lRecoType = "topic"
FIdle ==
    /\ FInit
    /\ fCfg = [poll |-> 1, mock |-> 1, n |-> 0]
    /\ fCursorFile = [kind |-> "missing", index |-> 0]

PIdle ==
    /\ PInit
    /\ pCfg = [logType |-> "topic", recoType |-> "topic", patterns |-> <<"">>,
               debug |-> FALSE]
    /\ bExchanges = [name \in {LOG_EXCHANGE, RECO_EXCHANGE} |-> "none"]

InitDispatch == DInit /\ LIdle /\ FIdle /\ PIdle /\ SInit /\ AInit
InitLive == DInit /\ LInit /\ FIdle /\ PIdle /\ SInit /\ AInit
InitFallback == DInit /\ LIdle /\ FInit /\ PIdle /\ SInit /\ AInit
InitProvision == DInit /\ LIdle /\ FIdle /\ PInit /\ SInit /\ AInit

\* The worker starts with a backlog: one message was routed to its private
\* queue between queue_bind (lines 217-231) and the first basic_get.
FBacklog ==
    /\ fCfg \in [poll : 0..MaxInterval, mock : 0..MaxInterval, n : 0..MaxMock]
    /\ fCursorFile \in CursorFiles
    /\ mock_index = load_cursor(fCursorFile)
    /\ fpc = "live_check"
    /\ fChan = "open"
    /\ fQueue \in {<<body>> : body \in FBodies}
    /\ fUnacked = <<>>
    /\ fSent = 0
    /\ waited = 0
    /\ fLog = <<>>
    /\ fPublished = <<>>
    /\ fExit = Running

InitBacklog == DInit /\ LIdle /\ FBacklog /\ PIdle /\ SInit /\ AInit

\* worker_loop is entered: nothing is loaded yet.  The intervals play no
\* part before the loop and are both one second here.
FBoot ==
    /\ fCfg \in [poll : {1}, mock : {1}, n : {0}, file : MockFiles]
    /\ fCursorFile \in StartCursorFiles
    /\ mock_index = 0
    /\ fpc = "start"
    /\ fChan = "open"
    /\ fQueue = <<>>
    /\ fUnacked = <<>>
    /\ fSent = 0
    /\ waited = 0
    /\ fLog = <<>>
    /\ fPublished = <<>>
    /\ fExit = Running

InitStartup == DInit /\ LIdle /\ FBoot /\ PIdle /\ SInit /\ AInit
InitStore == DInit /\ LIdle /\ FIdle /\ PIdle /\ SInit /\ AInit
InitAnalyze == DInit /\ LIdle /\ FIdle /\ PIdle /\ SInit /\ AWaiting

SpecDispatch == InitDispatch /\ [][DNext]_vars
SpecLive == InitLive /\ [][LNext]_vars
SpecFallback == InitFallback /\ [][FNext]_vars
SpecProvision == InitProvision /\ [][PNext]_vars
SpecBacklog == InitBacklog /\ [][FNext]_vars
SpecStartup == InitStartup /\ [][SNext]_vars
SpecStore == InitStore /\ [][TNext]_vars
SpecAnalyze == InitAnalyze /\ [][ANext]_vars

\* The loop runs as long as it can take a step: nothing but an exception
\* or Ctrl+C ends "while True".
SpecReplay == InitFallback /\ [][RNext]_vars /\ WF_vars(RNext)

====
